---------------------------- MODULE Spec2Model ----------------------------
(***************************************************************************)
(* A model of the vorothree Voronoi tessellation core: the face-indexed    *)
(* cell clipper (src/src/cell_faces.rs), the uniform-grid and octree       *)
(* spatial indices (src/src/algo_grid.rs, src/src/algo_octree.rs,          *)
(* src/src/moctree.rs) and the two tessellation drivers                    *)
(* (src/src/tessellation.rs, src/src/tessellation_moctree.rs).             *)
(*                                                                         *)
(* Numbers.  The program computes with f64.  The model computes with exact *)
(* rationals <<n, d>> (d > 0, lowest terms): every comparison, floor and   *)
(* clamp of the source is evaluated on the exact value, so the model       *)
(* follows the program wherever the f64 operations are exact, and ignores  *)
(* rounding elsewhere.  Indices are 0-based as in the source; a sequence   *)
(* position is the index plus one.                                         *)
(***************************************************************************)
EXTENDS Integers, Sequences, FiniteSets, TLC

(***************************************************************************)
(* TLC evaluates operator arguments lazily; a loop that threads an         *)
(* accumulator forces it at every iteration with Strict, so that the       *)
(* evaluation depth stays that of the loop.  Strict(v) is TRUE.            *)
(***************************************************************************)
Strict(v) == v = v

(***************************************************************************)
(* Exact rational arithmetic standing in for f64.                          *)
(***************************************************************************)
RECURSIVE Gcd(_, _)
Gcd(a, b) == IF b = 0 THEN a ELSE Gcd(b, a % b)

Abs(n) == IF n < 0 THEN -n ELSE n

\* The rational n/d (d # 0) in lowest terms with a positive denominator.
Norm(n, d) ==
    LET g == Gcd(Abs(n), Abs(d))
        s == IF d < 0 THEN -1 ELSE 1
    IN  <<(s * n) \div g, (s * d) \div g>>

R(n) == <<n, 1>>

Zero == R(0)

One == R(1)

RNeg(a) == <<-a[1], a[2]>>

RAdd(a, b) ==
    IF a[2] = b[2]
    THEN Norm(a[1] + b[1], a[2])
    ELSE LET g == Gcd(a[2], b[2])
         IN  Norm(a[1] * (b[2] \div g) + b[1] * (a[2] \div g), a[2] * (b[2] \div g))

RSub(a, b) == RAdd(a, RNeg(b))

RMul(a, b) ==
    IF a[1] = 0 \/ b[1] = 0 THEN Zero
    ELSE LET g1 == Gcd(Abs(a[1]), b[2])
             g2 == Gcd(Abs(b[1]), a[2])
         IN  <<(a[1] \div g1) * (b[1] \div g2), (a[2] \div g2) * (b[2] \div g1)>>

\* a / b for b # 0
RDiv(a, b) ==
    RMul(a, IF b[1] < 0 THEN <<-b[2], -b[1]>> ELSE <<b[2], b[1]>>)

RSign(a) == IF a[1] > 0 THEN 1 ELSE IF a[1] < 0 THEN -1 ELSE 0

RLt(a, b) == RSign(RSub(a, b)) < 0

RLe(a, b) == RSign(RSub(a, b)) <= 0

RGt(a, b) == RLt(b, a)

RGe(a, b) == RLe(b, a)

\* f64::max, f64::min and f64::clamp
RMax(a, b) == IF RLt(a, b) THEN b ELSE a

RMin(a, b) == IF RLt(b, a) THEN b ELSE a

RClamp(a, lo, hi) == IF RLt(a, lo) THEN lo ELSE IF RGt(a, hi) THEN hi ELSE a

\* `as usize` of a non-negative value: truncation
RTrunc(a) == a[1] \div a[2]

\* The tolerance 1e-9 of the clippers is 1 / EpsDen.
EpsDen == 1000000000

\* d > 1e-9, evaluated without forming n * 10^9
GtEps(a) == a[1] > a[2] \div EpsDen

\* d < -1e-9
LtNegEps(a) == (-a[1]) > a[2] \div EpsDen

\* The grid's index limit is n - 1e-5 = n - 1 / LimitDen.
LimitDen == 100000

(***************************************************************************)
(* Points and vectors of three coordinates.                                *)
(***************************************************************************)
P3(x, y, z) == <<R(x), R(y), R(z)>>

VSub(a, b) == <<RSub(a[1], b[1]), RSub(a[2], b[2]), RSub(a[3], b[3])>>

VNeg(a) == <<RNeg(a[1]), RNeg(a[2]), RNeg(a[3])>>

Dot(a, b) == RAdd(RAdd(RMul(a[1], b[1]), RMul(a[2], b[2])), RMul(a[3], b[3]))

\* dx * dx + dy * dy + dz * dz
DistSq(a, b) == LET d == VSub(a, b) IN Dot(d, d)

\* a + t * (b - a), per coordinate
Lerp(a, b, t) ==
    <<RAdd(a[1], RMul(t, RSub(b[1], a[1]))),
      RAdd(a[2], RMul(t, RSub(b[2], a[2]))),
      RAdd(a[3], RMul(t, RSub(b[3], a[3])))>>

\* g + d * 0.5, per coordinate: the point halfway from g to o
Midpoint(g, o) == Lerp(g, o, <<1, 2>>)

(***************************************************************************)
(* The domain box of every tessellation of the model: [0, 4]^3.            *)
(***************************************************************************)
bounds == [min |-> P3(0, 0, 0), max |-> P3(4, 4, 4)]

\* Labels of the six box faces
BOX_ID_BOTTOM == -1

BOX_ID_TOP == -2

BOX_ID_FRONT == -3

BOX_ID_BACK == -4

BOX_ID_LEFT == -5

BOX_ID_RIGHT == -6

(***************************************************************************)
(* CellFaces: a polyhedron as a vertex list and a flat list of face loops. *)
(* Vertex indices are 0-based.                                             *)
(***************************************************************************)
\* box_side(axis, is_max) of bounds/mod.rs; is_max is 0 or 1
box_side(axis, is_max) == -1 - (axis * 2 + is_max)

\* CellFaces::new(id, bounds): the box, six quadrilateral faces
CellNew(id) ==
    LET lo == bounds.min
        hi == bounds.max
    IN  [id |-> id,
         vertices |-> << <<lo[1], lo[2], lo[3]>>, <<hi[1], lo[2], lo[3]>>,
                         <<hi[1], hi[2], lo[3]>>, <<lo[1], hi[2], lo[3]>>,
                         <<lo[1], lo[2], hi[3]>>, <<hi[1], lo[2], hi[3]>>,
                         <<hi[1], hi[2], hi[3]>>, <<lo[1], hi[2], hi[3]>> >>,
         face_counts |-> <<4, 4, 4, 4, 4, 4>>,
         face_indices |-> <<3, 2, 1, 0,  4, 5, 6, 7,  0, 1, 5, 4,
                            2, 3, 7, 6,  0, 4, 7, 3,  1, 2, 6, 5>>,
         face_neighbors |-> <<BOX_ID_BOTTOM, BOX_ID_TOP, BOX_ID_FRONT,
                              BOX_ID_BACK, BOX_ID_LEFT, BOX_ID_RIGHT>>]

\* CellFacesScratch::default(): twelve empty buffers
ScratchDefault ==
    [vertices |-> <<>>, face_counts |-> <<>>, face_indices |-> <<>>,
     face_neighbors |-> <<>>, dists |-> <<>>, is_intersection |-> <<>>,
     old_to_new |-> <<>>, intersection_map |-> <<>>, lid_segments |-> <<>>,
     face_buffer |-> <<>>, lid_buffer |-> <<>>, lid_map |-> <<>>]

\* Option::None of old_to_new, and of the generator argument of the clipper
None == -1

NoGenerator == <<>>

U16Max == 65535

\* if d2 > max_d2 { max_d2 = d2 }, skipped when no generator is passed
UpdMax(max_d2, p, generator) ==
    IF generator = NoGenerator THEN max_d2 ELSE RMax(max_d2, DistSq(p, generator))

RECURSIVE MaxRadiusLoop(_, _, _, _)
MaxRadiusLoop(vertices, center, k, max_d2) ==
    IF Strict(max_d2) /\ k <= Len(vertices)
    THEN MaxRadiusLoop(vertices, center, k + 1, UpdMax(max_d2, vertices[k], center))
    ELSE max_d2

\* CellFaces::max_radius_sq
max_radius_sq(cell, center) == MaxRadiusLoop(cell.vertices, center, 1, Zero)

\* Step 1 of the clipper: signed distance of every vertex to the plane
ClipDists(vertices, point, normal) ==
    [k \in 1..Len(vertices) |-> Dot(VSub(vertices[k], point), normal)]

\* all_inside stays true unless some d > 1e-9
AllInside(dists) == \A k \in 1..Len(dists) : ~GtEps(dists[k])

\* Fault: all_outside tests d < 0 in place of d < -1e-9
AllOutsideExact(dists) ==
    \A k \in 1..Len(dists) : ~(~GtEps(dists[k]) /\ RSign(dists[k]) < 0)

\* all_outside stays true unless some d fails d > 1e-9 and has d < -1e-9
AllOutside(dists) == \A k \in 1..Len(dists) : ~(~GtEps(dists[k]) /\ LtNegEps(dists[k]))

\* Fault: the kept vertices are left out of max_d2
KeepVertexNoMax(acc, v, d, generator) ==
    IF ~GtEps(d)
    THEN [acc EXCEPT !.vertices = Append(@, v),
                     !.old_to_new = Append(@, Len(acc.vertices)),
                     !.is_intersection = Append(@, FALSE)]
    ELSE [acc EXCEPT !.old_to_new = Append(@, None)]

\* Step 2 for one vertex: it is copied if d <= 1e-9
KeepVertex(acc, v, d, generator) ==
    IF ~GtEps(d)
    THEN [acc EXCEPT !.vertices = Append(@, v),
                     !.old_to_new = Append(@, Len(acc.vertices)),
                     !.is_intersection = Append(@, FALSE),
                     !.max_d2 = UpdMax(@, v, generator)]
    ELSE [acc EXCEPT !.old_to_new = Append(@, None)]

RECURSIVE KeepVertices(_, _, _, _, _)
KeepVertices(vertices, dists, generator, i, acc) ==
    IF Strict(acc) /\ i <= Len(vertices)
    THEN KeepVertices(vertices, dists, generator, i + 1,
                      KeepVertex(acc, vertices[i], dists[i], generator))
    ELSE acc

\* (min << 16) | max of the two vertex indices of an edge
EdgeKey(idx_s, idx_e) ==
    IF idx_s < idx_e THEN idx_s * 65536 + idx_e ELSE idx_e * 65536 + idx_s

\* intersection_map.iter().find(|(k, _)| k == key)
RECURSIVE FindKey(_, _, _)
FindKey(map, key, k) ==
    IF k > Len(map) THEN None
    ELSE IF map[k][1] = key THEN map[k][2]
    ELSE FindKey(map, key, k + 1)

\* t = (d_s / (d_s - d_e)).clamp(0.0, 1.0)
IntersectT(d_s, d_e) == RClamp(RDiv(d_s, RSub(d_s, d_e)), Zero, One)

\* The vertex of edge `key` on the plane is pushed to the face buffer: the
\* one found in the intersection map (hit), or else the new vertex p
IntersectAt(st, key, hit, p, generator) ==
    IF hit # None
    THEN [st EXCEPT !.face_buffer = Append(@, hit)]
    ELSE [st EXCEPT !.vertices = Append(@, p),
                    !.max_d2 = UpdMax(@, p, generator),
                    !.is_intersection = Append(@, TRUE),
                    !.intersection_map = Append(@, <<key, Len(st.vertices)>>),
                    !.face_buffer = Append(@, Len(st.vertices))]

\* The vertex where edge (idx_s, idx_e) crosses the plane: a + t * (b - a)
Intersect(st, vertices, dists, idx_s, idx_e, generator) ==
    IntersectAt(st, EdgeKey(idx_s, idx_e),
                FindKey(st.intersection_map, EdgeKey(idx_s, idx_e), 1),
                Lerp(vertices[idx_s + 1], vertices[idx_e + 1],
                     IntersectT(dists[idx_s + 1], dists[idx_e + 1])),
                generator)

\* if let Some(idx) = old_to_new[idx_e] { face_buffer.push(idx) }
PushKept(st, idx_e) ==
    IF st.old_to_new[idx_e + 1] # None
    THEN [st EXCEPT !.face_buffer = Append(@, st.old_to_new[idx_e + 1])]
    ELSE st

\* One edge of a face loop; s_in is d_s <= 1e-9, e_in is d_e <= 1e-9
ClipEdge(st, vertices, dists, idx_s, idx_e, generator) ==
    IF ~GtEps(dists[idx_s + 1])
    THEN IF ~GtEps(dists[idx_e + 1]) THEN PushKept(st, idx_e)
         ELSE Intersect(st, vertices, dists, idx_s, idx_e, generator)
    ELSE IF ~GtEps(dists[idx_e + 1])
         THEN PushKept(Intersect(st, vertices, dists, idx_s, idx_e, generator), idx_e)
         ELSE st

RECURSIVE ClipFaceEdges(_, _, _, _, _, _)
ClipFaceEdges(st, vertices, dists, current_indices, i, generator) ==
    IF Strict(st) /\ i <= Len(current_indices)
    THEN ClipFaceEdges(ClipEdge(st, vertices, dists, current_indices[i],
                                current_indices[(i % Len(current_indices)) + 1],
                                generator),
                       vertices, dists, current_indices, i + 1, generator)
    ELSE st

\* The segments of a clipped face that join two intersection vertices, reversed
RECURSIVE FaceLidSegments(_, _, _)
FaceLidSegments(face_buffer, is_intersection, i) ==
    IF i > Len(face_buffer) THEN <<>>
    ELSE (IF is_intersection[face_buffer[i] + 1]
             /\ is_intersection[face_buffer[(i % Len(face_buffer)) + 1] + 1]
          THEN << <<face_buffer[(i % Len(face_buffer)) + 1], face_buffer[i]>> >>
          ELSE <<>>)
         \o FaceLidSegments(face_buffer, is_intersection, i + 1)

\* Fault: the clipped loop is kept whatever its length
KeepFaceAlways(st, face_neighbor) ==
    [st EXCEPT !.face_counts = Append(@, Len(st.face_buffer)),
               !.face_neighbors = Append(@, face_neighbor),
               !.lid_segments = @ \o FaceLidSegments(st.face_buffer,
                                                     st.is_intersection, 1),
               !.face_indices = @ \o st.face_buffer]

\* The clipped loop in face_buffer is kept if it has at least 3 vertices
KeepFace(st, face_neighbor) ==
    IF Len(st.face_buffer) >= 3
    THEN [st EXCEPT !.face_counts = Append(@, Len(st.face_buffer)),
                    !.face_neighbors = Append(@, face_neighbor),
                    !.lid_segments = @ \o FaceLidSegments(st.face_buffer,
                                                          st.is_intersection, 1),
                    !.face_indices = @ \o st.face_buffer]
    ELSE st

\* Step 3 for one face: face_buffer is cleared, the loop is clipped
ClipFace(st, vertices, dists, current_indices, face_neighbor, generator) ==
    KeepFace(ClipFaceEdges([st EXCEPT !.face_buffer = <<>>], vertices, dists,
                           current_indices, 1, generator),
             face_neighbor)

RECURSIVE ClipFaces(_, _, _, _, _, _)
ClipFaces(st, cell, dists, face_idx, index_offset, generator) ==
    IF Strict(st) /\ face_idx <= Len(cell.face_counts)
    THEN ClipFaces(ClipFace(st, cell.vertices, dists,
                            SubSeq(cell.face_indices, index_offset + 1,
                                   index_offset + cell.face_counts[face_idx]),
                            cell.face_neighbors[face_idx], generator),
                   cell, dists, face_idx + 1,
                   index_offset + cell.face_counts[face_idx], generator)
    ELSE st

\* lid_map.resize(n, u16::MAX) on the cleared map, then lid_map[u] = v per segment
RECURSIVE BuildLidMap(_, _, _)
BuildLidMap(lid_map, lid_segments, k) ==
    IF Strict(lid_map) /\ k <= Len(lid_segments)
    THEN BuildLidMap([lid_map EXCEPT ![lid_segments[k][1] + 1] = lid_segments[k][2]],
                     lid_segments, k + 1)
    ELSE lid_map

\* while current != start && lid_buffer.len() <= lid_segments.len()
\*     { push(current); current = lid_map[current]; if current == MAX { break } }
RECURSIVE LidWalk(_, _, _, _, _)
LidWalk(lid_buffer, current, start, lid_map, nsegments) ==
    IF Strict(lid_buffer) /\ current # start /\ Len(lid_buffer) <= nsegments
    THEN IF lid_map[current + 1] = U16Max THEN Append(lid_buffer, current)
         ELSE LidWalk(Append(lid_buffer, current), lid_map[current + 1], start,
                      lid_map, nsegments)
    ELSE lid_buffer

\* The lid is pushed as a face labelled neighbor_id if it has at least 3 vertices
KeepLid(st, lid_map, lid_buffer, neighbor_id) ==
    IF Len(lid_buffer) >= 3
    THEN [st EXCEPT !.lid_map = lid_map, !.lid_buffer = lid_buffer,
                    !.face_counts = Append(@, Len(lid_buffer)),
                    !.face_indices = @ \o lid_buffer,
                    !.face_neighbors = Append(@, neighbor_id)]
    ELSE [st EXCEPT !.lid_map = lid_map, !.lid_buffer = lid_buffer]

LidFrom(st, lid_map, neighbor_id) ==
    KeepLid(st, lid_map,
            LidWalk(<<st.lid_segments[1][1]>>, st.lid_segments[1][2],
                    st.lid_segments[1][1], lid_map, Len(st.lid_segments)),
            neighbor_id)

\* Step 4: the lid face is rebuilt from the segments
Lid(st, neighbor_id) ==
    IF st.lid_segments = <<>> THEN st
    ELSE LidFrom(st, BuildLidMap([k \in 1..Len(st.vertices) |-> U16Max],
                                 st.lid_segments, 1),
                 neighbor_id)

\* The working state of one clip after `2. Prepare new data structures`:
\* every buffer the clip reads is cleared; face_buffer and lid_buffer keep
\* their old content until the first face, and the lid, clear them.
ClipPrepare(cell, scratch, dists, generator) ==
    KeepVertices(cell.vertices, dists, generator, 1,
        [vertices |-> <<>>, face_counts |-> <<>>, face_indices |-> <<>>,
         face_neighbors |-> <<>>, is_intersection |-> <<>>, old_to_new |-> <<>>,
         intersection_map |-> <<>>, lid_segments |-> <<>>, lid_map |-> <<>>,
         lid_buffer |-> scratch.lid_buffer, face_buffer |-> scratch.face_buffer,
         max_d2 |-> Zero])

\* The swaps and the return value (true, max_d2)
ClipSwap(cell, dists, st) ==
    [cell |-> [cell EXCEPT !.vertices = st.vertices,
                           !.face_counts = st.face_counts,
                           !.face_indices = st.face_indices,
                           !.face_neighbors = st.face_neighbors],
     scratch |-> [vertices |-> cell.vertices,
                  face_counts |-> cell.face_counts,
                  face_indices |-> cell.face_indices,
                  face_neighbors |-> cell.face_neighbors,
                  dists |-> dists,
                  is_intersection |-> st.is_intersection,
                  old_to_new |-> st.old_to_new,
                  intersection_map |-> st.intersection_map,
                  lid_segments |-> st.lid_segments,
                  face_buffer |-> st.face_buffer,
                  lid_buffer |-> st.lid_buffer,
                  lid_map |-> st.lid_map],
     modified |-> TRUE, radius |-> st.max_d2]

\* The clip once the distances are known
ClipBy(cell, dists, neighbor_id, scratch, generator) ==
    IF AllInside(dists)
    THEN [cell |-> cell, scratch |-> [scratch EXCEPT !.dists = dists],
          modified |-> FALSE, radius |-> Zero]
    ELSE IF AllOutside(dists)
    THEN [cell |-> [cell EXCEPT !.vertices = <<>>, !.face_counts = <<>>,
                                !.face_indices = <<>>, !.face_neighbors = <<>>],
          scratch |-> [scratch EXCEPT !.dists = dists],
          modified |-> TRUE, radius |-> Zero]
    ELSE ClipSwap(cell, dists,
                  Lid(ClipFaces(ClipPrepare(cell, scratch, dists, generator),
                                cell, dists, 1, 0, generator),
                      neighbor_id))

\* Fault: scratch.dists is not cleared, so the distances of this clip are
\* pushed behind those of the last clip and the stale ones are read
clip_with_stale_dists(cell, point, normal, neighbor_id, scratch, generator) ==
    ClipBy(cell,
           SubSeq(scratch.dists \o [k \in 1..Len(cell.vertices) |->
                                       ClipDists(cell.vertices, point, normal)[k]],
                  1, Len(cell.vertices)),
           neighbor_id, scratch, generator)

\* CellFaces::clip_with_scratch: the cell is cut by the half-space
\* {x : (x - point) . normal <= 0}.  The result carries the new cell, the new
\* scratch, and the returned pair (modified, radius).
clip_with_scratch(cell, point, normal, neighbor_id, scratch, generator) ==
    ClipBy(cell, ClipDists(cell.vertices, point, normal), neighbor_id, scratch,
           generator)

(***************************************************************************)
(* Walls.  A wall is a plane [id, point, normal]; the normal points into   *)
(* the valid region (PlaneGeometry of src/src/wall.rs).                    *)
(***************************************************************************)
\* PlaneGeometry::contains
contains(wall, p) == RSign(Dot(VSub(p, wall.point), wall.normal)) >= 0

\* PlaneGeometry::cut: the plane itself, with the normal pointing out
cut(wall) == [point |-> wall.point, normal |-> VNeg(wall.normal)]

\* for wall in walls { if !wall.contains(x, y, z) { inside = false } }
InsideWalls(ws, p) == \A k \in 1..Len(ws) : contains(ws[k], p)

\* The points of a list that all walls contain, in order
RECURSIVE FilterByWalls(_, _)
FilterByWalls(ws, gs) ==
    IF gs = <<>> THEN <<>>
    ELSE (IF InsideWalls(ws, Head(gs)) THEN <<Head(gs)>> ELSE <<>>)
         \o FilterByWalls(ws, Tail(gs))

(***************************************************************************)
(* The uniform grid of Tessellation (src/src/tessellation.rs).  A grid is  *)
(* [res, bins, generator_bin_ids, bin_search_order]; bins and bin ids are  *)
(* 0-based, so bin b is bins[b + 1].                                       *)
(***************************************************************************)
BoxSize(axis) == RSub(bounds.max[axis], bounds.min[axis])

\* grid_scale = n / (max - min), cell_size = 1 / grid_scale
GridScale(res, axis) == RDiv(R(res[axis]), BoxSize(axis))

CellSize(res, axis) == RDiv(One, GridScale(res, axis))

\* v > grid_limit, where grid_limit = n - 1e-5: n - v < 1 / LimitDen,
\* evaluated without forming a product with LimitDen
AboveLimit(v, n) ==
    LET w == RSub(R(n), v)
    IN  w[1] <= (w[2] - 1) \div LimitDen

\* ((x - min) * scale).clamp(0.0, limit) as usize; the limit truncates to n - 1
AxisBin(res, p, axis) ==
    LET v == RMul(RSub(p[axis], bounds.min[axis]), GridScale(res, axis))
    IN  IF RSign(v) < 0 THEN 0
        ELSE IF AboveLimit(v, res[axis]) THEN res[axis] - 1
        ELSE RTrunc(v)

\* Tessellation::get_bin_index
get_bin_index(res, p) ==
    AxisBin(res, p, 1) + AxisBin(res, p, 2) * res[1]
    + AxisBin(res, p, 3) * res[1] * res[2]

\* One axis of get_min_dist_sq
MinAxisDist(d, c) ==
    IF d > 0 THEN RMul(R(d - 1), c)
    ELSE IF d < 0 THEN RMul(R(-d - 1), c)
    ELSE Zero

\* get_min_dist_sq: a lower bound of the squared distance from any point of
\* a bin to any point of the bin at offset (dx, dy, dz)
get_min_dist_sq(off, res) ==
    LET mx == MinAxisDist(off[1], CellSize(res, 1))
        my == MinAxisDist(off[2], CellSize(res, 2))
        mz == MinAxisDist(off[3], CellSize(res, 3))
    IN  RAdd(RAdd(RMul(mx, mx), RMul(my, my)), RMul(mz, mz))

\* for z in -rz..=rz { for y in -ry..=ry { for x in -rx..=rx { push((x, y, z)) } } }
AllOffsets(res) ==
    LET wx == 2 * res[1] + 1
        wy == 2 * res[2] + 1
        wz == 2 * res[3] + 1
    IN  [k \in 1..(wx * wy * wz) |->
            <<((k - 1) % wx) - res[1],
              (((k - 1) \div wx) % wy) - res[2],
              ((k - 1) \div (wx * wy)) - res[3]>>]

\* The sort keys of the offsets
SortKeys(offs, res) == [k \in DOMAIN offs |-> get_min_dist_sq(offs[k], res)]

\* The position of every offset in the sorted list: behind the offsets of a
\* smaller key, and behind the earlier (order "low") or the later (order
\* "high") offsets of the same key
SortRanks(keys, order) ==
    [k \in DOMAIN keys |->
        1 + Cardinality({m \in DOMAIN keys :
                           \/ RLt(keys[m], keys[k])
                           \/ /\ keys[m] = keys[k]
                              /\ IF order = "low" THEN m < k ELSE m > k})]

Ranked(offs, ranks) ==
    IF Strict(ranks)
    THEN [r \in DOMAIN offs |-> offs[CHOOSE k \in DOMAIN offs : ranks[k] = r]]
    ELSE <<>>

\* bin_search_order: the offsets sorted by get_min_dist_sq.  sort_unstable_by
\* leaves the order of equal keys open; the model has two outcomes, the
\* offsets of equal key in the order of their push or in the reverse of it.
SortOffsets(offs, keys, order) ==
    IF Strict(keys) THEN Ranked(offs, SortRanks(keys, order)) ELSE <<>>

SearchOrder(res, order) ==
    SortOffsets(AllOffsets(res), SortKeys(AllOffsets(res), res), order)

\* Tessellation::new: empty bins, the search order of the shape
GridNew(res, order) ==
    [res |-> res,
     bins |-> [b \in 1..(res[1] * res[2] * res[3]) |-> <<>>],
     generator_bin_ids |-> <<>>,
     bin_search_order |-> SearchOrder(res, order)]

\* grid_bins[bin_idx].push(i); generator_bin_ids[i] = bin_idx
PushToBin(g, i, bin_idx) ==
    [g EXCEPT !.bins[bin_idx + 1] = Append(@, i),
              !.generator_bin_ids = Append(@, bin_idx)]

\* The tail of set_generators: every bin is cleared, then generator i is
\* pushed to the bin of its position, for i = 0, 1, ...
RECURSIVE Rebin(_, _, _)
Rebin(g, gs, i) ==
    IF Strict(g) /\ i < Len(gs)
    THEN Rebin(PushToBin(g, i, get_bin_index(g.res, gs[i + 1])), gs, i + 1)
    ELSE g

GridSetGenerators(g, gs) ==
    Rebin([g EXCEPT !.bins = [b \in 1..(g.res[1] * g.res[2] * g.res[3]) |-> <<>>],
                    !.generator_bin_ids = <<>>],
          gs, 0)

\* Vec::swap_remove(pos): the last element takes the place of the removed one
swap_remove(v, pos) ==
    IF pos = Len(v) THEN SubSeq(v, 1, Len(v) - 1)
    ELSE [SubSeq(v, 1, Len(v) - 1) EXCEPT ![pos] = v[Len(v)]]

\* iter().position(|id| id == index): the first position, 0 if there is none
Position(v, index) ==
    IF \E k \in 1..Len(v) : v[k] = index
    THEN CHOOSE k \in 1..Len(v) : v[k] = index /\ \A m \in 1..(k - 1) : v[m] # index
    ELSE 0

\* Fault: the index stays in its old bin
RemoveAtKeep(bin, pos) == bin

\* if let Some(pos) = position { swap_remove(pos) }
RemoveAt(bin, pos) == IF pos # 0 THEN swap_remove(bin, pos) ELSE bin

\* The index leaves the old bin and is pushed to the new one
MoveToBin(g, index, new_bin_idx, old_bin_idx) ==
    IF new_bin_idx # old_bin_idx
    THEN [g EXCEPT !.bins =
                      [[@ EXCEPT ![old_bin_idx + 1] =
                                    RemoveAt(@, Position(g.bins[old_bin_idx + 1], index))]
                       EXCEPT ![new_bin_idx + 1] = Append(@, index)],
                   !.generator_bin_ids[index + 1] = new_bin_idx]
    ELSE g

\* The binning part of set_generator (lines 303-316)
GridUpdateGenerator(g, index, p) ==
    MoveToBin(g, index, get_bin_index(g.res, p), g.generator_bin_ids[index + 1])

(***************************************************************************)
(* The octree of TessellationMoctree (src/src/moctree.rs, the same code as *)
(* src/src/algo_octree.rs).  A node is [bounds, points, children]; points  *)
(* are [index, p]; children is <<>> for a leaf and eight nodes otherwise.  *)
(* Subdivision is unbounded in the program: with more than `capacity`      *)
(* coincident points insert never returns.  The model subdivides down to   *)
(* MaxDepth and reports a full leaf at that depth as `diverged`.           *)
(***************************************************************************)
MaxDepth == 3

\* Moctree::new
Moctree(b) == [bounds |-> b, points |-> <<>>, children |-> <<>>]

\* Moctree::contains: the closed box
BoxContains(b, p) == \A axis \in 1..3 : RGe(p[axis], b.min[axis]) /\ RLe(p[axis], b.max[axis])

\* (min + max) / 2 on one axis
Mid(b, axis) == RDiv(RAdd(b.min[axis], b.max[axis]), R(2))

\* Whether octant k (1..8) is the upper half on the axis: x varies fastest,
\* then y, then z
UpperHalf(k, axis) ==
    IF axis = 1 THEN (k - 1) % 2 = 1
    ELSE IF axis = 2 THEN ((k - 1) \div 2) % 2 = 1
    ELSE (k - 1) \div 4 = 1

\* The eight octants of subdivide, in its order
ChildBounds(b, k) ==
    [min |-> [axis \in 1..3 |-> IF UpperHalf(k, axis) THEN Mid(b, axis) ELSE b.min[axis]],
     max |-> [axis \in 1..3 |-> IF UpperHalf(k, axis) THEN b.max[axis] ELSE Mid(b, axis)]]

RECURSIVE insert(_, _, _, _, _)
RECURSIVE InsertChildren(_, _, _, _, _, _)
RECURSIVE InsertNext(_, _, _, _, _, _, _)
RECURSIVE subdivide(_, _, _)
RECURSIVE Redistribute(_, _, _, _, _)
RECURSIVE InsertSubdivided(_, _, _, _, _)

\* Moctree::insert on the node at `depth`: [ok, node, diverged]
insert(node, capacity, index, p, depth) ==
    IF ~BoxContains(node.bounds, p)
    THEN [ok |-> FALSE, node |-> node, diverged |-> FALSE]
    ELSE IF node.children = <<>> /\ Len(node.points) < capacity
    THEN [ok |-> TRUE, diverged |-> FALSE,
          node |-> [node EXCEPT !.points = Append(@, [index |-> index, p |-> p])]]
    ELSE IF node.children # <<>>
    THEN InsertChildren(node, capacity, index, p, depth, 1)
    ELSE IF depth >= MaxDepth
    THEN [ok |-> FALSE, node |-> node, diverged |-> TRUE]
    ELSE InsertSubdivided(subdivide(node, capacity, depth), capacity, index, p, depth)

\* insert after self.subdivide(): s is [node, diverged]
InsertSubdivided(s, capacity, index, p, depth) ==
    IF s.diverged THEN [ok |-> FALSE, node |-> s.node, diverged |-> TRUE]
    ELSE InsertChildren(s.node, capacity, index, p, depth, 1)

\* for child in children { if child.insert(..) { return true } } false
InsertChildren(node, capacity, index, p, depth, k) ==
    IF k > 8 THEN [ok |-> FALSE, node |-> node, diverged |-> FALSE]
    ELSE InsertNext(node, insert(node.children[k], capacity, index, p, depth + 1),
                    capacity, index, p, depth, k)

\* r is the result of child k
InsertNext(node, r, capacity, index, p, depth, k) ==
    IF r.diverged THEN [ok |-> FALSE, node |-> node, diverged |-> TRUE]
    ELSE IF r.ok
    THEN [ok |-> TRUE, node |-> [node EXCEPT !.children[k] = r.node], diverged |-> FALSE]
    ELSE InsertChildren([node EXCEPT !.children[k] = r.node], capacity, index, p,
                        depth, k + 1)

\* Moctree::subdivide: eight empty children, then every point of the node
\* goes to the first child that accepts it; [node, diverged]
subdivide(node, capacity, depth) ==
    Redistribute([node |-> [node EXCEPT !.points = <<>>,
                                        !.children = [k \in 1..8 |->
                                            Moctree(ChildBounds(node.bounds, k))]],
                  diverged |-> FALSE],
                 capacity, depth, node.points, 1)

Redistribute(r, capacity, depth, points, i) ==
    IF Strict(r) /\ ~r.diverged /\ i <= Len(points)
    THEN Redistribute(InsertChildren(r.node, capacity, points[i].index, points[i].p,
                                     depth, 1),
                      capacity, depth, points, i + 1)
    ELSE [node |-> r.node, diverged |-> r.diverged]

\* The octree after insert returned r, or did not return
Inserted(oct, r) == [oct EXCEPT !.root = r.node, !.diverged = r.diverged]

\* octree.clear(), then insert(i, ..) for i = 0, 1, ...; the result of insert
\* is not looked at.  An octree is [capacity, root, diverged].
RECURSIVE InsertAll(_, _, _)
InsertAll(oct, gs, i) ==
    IF Strict(oct) /\ ~oct.diverged /\ i < Len(gs)
    THEN InsertAll(Inserted(oct, insert(oct.root, oct.capacity, i, gs[i + 1], 0)),
                   gs, i + 1)
    ELSE oct

OctreeNew(capacity) == [capacity |-> capacity, root |-> Moctree(bounds), diverged |-> FALSE]

OctreeSetGenerators(oct, gs) == InsertAll(OctreeNew(oct.capacity), gs, 0)

\* The node reached from `node` by a path of child numbers
RECURSIVE NodeAt(_, _)
NodeAt(node, path) ==
    IF path = <<>> THEN node ELSE NodeAt(node.children[Head(path)], Tail(path))

\* The (index, position) pairs stored below a node
RECURSIVE Stored(_)
Stored(node) ==
    {<<node.points[k].index, node.points[k].p>> : k \in 1..Len(node.points)}
    \cup UNION {Stored(node.children[k]) : k \in 1..Len(node.children)}

\* dist_sq_to_bounds
dist_sq_to_bounds(p, b) ==
    LET d == [axis \in 1..3 |->
                RMax(RMax(RSub(b.min[axis], p[axis]), Zero), RSub(p[axis], b.max[axis]))]
    IN  Dot(d, d)

\* A SearchItem is [dist_sq, node, point]: node is the path of child numbers
\* from the root (NoNode for a point item), point is a stored point (NoPoint
\* for a node item).
NoNode == <<0>>

NoPoint == [index |-> None, p |-> <<>>]

\* Moctree::nearest_iter: the queue holds the root
nearest_iter(oct, p) ==
    {[dist_sq |-> dist_sq_to_bounds(p, oct.root.bounds), node |-> <<>>, point |-> NoPoint]}

\* The items pushed for a popped node: its children, or the points of a leaf
ExpandNode(node, path, p) ==
    IF node.children # <<>>
    THEN {[dist_sq |-> dist_sq_to_bounds(p, node.children[k].bounds),
           node |-> Append(path, k), point |-> NoPoint] : k \in 1..8}
    ELSE {[dist_sq |-> DistSq(node.points[k].p, p), node |-> NoNode,
           point |-> node.points[k]] : k \in 1..Len(node.points)}

\* NearestIterator::next after popping a node item
Expand(oct, item, p) == ExpandNode(NodeAt(oct.root, item.node), item.node, p)

\* Fault: the ordering of SearchItem is not reversed, the heap is a max-heap
Greatest(queue) == {it \in queue : \A o \in queue : RGe(it.dist_sq, o.dist_sq)}

\* BinaryHeap::pop yields an item of least dist_sq; which one among equals
\* is not fixed by the ordering of SearchItem.
Least(queue) == {it \in queue : \A o \in queue : RLe(it.dist_sq, o.dist_sq)}

\* The node items among the least items of the queue
LeastNodes(queue) == {it \in Least(queue) : it.point = NoPoint}

\* The queue after the node item is popped
PopNode(oct, queue, item, p) == (queue \ {item}) \cup Expand(oct, item, p)

\* The pops of one call of NearestIterator::next that yield node items.
\* Popping a node item only pushes its children or points, so the order in
\* which equal node items are popped does not show in the indices the
\* iterator yields: the model pops the equal node items first, in a fixed
\* order.  The result is the queue whose least items are all point items,
\* or the empty queue.
RECURSIVE Advance(_, _, _)
Advance(oct, queue, p) ==
    IF Strict(queue) /\ LeastNodes(queue) # {}
    THEN Advance(oct, PopNode(oct, queue, CHOOSE it \in LeastNodes(queue) : TRUE, p), p)
    ELSE queue

\* The point item a call of next on the advanced queue yields: of the equal
\* least items the one the heap's order puts first
Poppable(queue, order) ==
    IF order = "low"
    THEN {it \in Least(queue) : \A o \in Least(queue) : it.point.index <= o.point.index}
    ELSE {it \in Least(queue) : \A o \in Least(queue) : it.point.index >= o.point.index}

(***************************************************************************)
(* Volume-weighted centroid of a cell (CellFaces::centroid), used by relax *)
(***************************************************************************)
\* The fan triangles (v0, v_i, v_i+1) of one face with at least 3 vertices
FaceFan(cell, count, index_offset) ==
    IF count < 3 THEN <<>>
    ELSE [i \in 1..(count - 2) |->
             <<cell.vertices[cell.face_indices[index_offset + 1] + 1],
               cell.vertices[cell.face_indices[index_offset + i + 1] + 1],
               cell.vertices[cell.face_indices[index_offset + i + 2] + 1]>>]

RECURSIVE FaceTriangles(_, _, _)
FaceTriangles(cell, face_idx, index_offset) ==
    IF face_idx > Len(cell.face_counts) THEN <<>>
    ELSE FaceFan(cell, cell.face_counts[face_idx], index_offset)
         \o FaceTriangles(cell, face_idx + 1, index_offset + cell.face_counts[face_idx])

\* v0 . cross for the cross product of v1 and v2
DetOf(v0, cross_x, cross_y, cross_z) ==
    RAdd(RAdd(RMul(v0[1], cross_x), RMul(v0[2], cross_y)), RMul(v0[3], cross_z))

\* det = v0 . (v1 x v2)
Det(v0, v1, v2) ==
    DetOf(v0, RSub(RMul(v1[2], v2[3]), RMul(v1[3], v2[2])),
              RSub(RMul(v1[3], v2[1]), RMul(v1[1], v2[3])),
              RSub(RMul(v1[1], v2[2]), RMul(v1[2], v2[1])))

\* total_volume += det; centroid += det * (v0 + v1 + v2)
AddTriangle(acc, t, det) ==
    [total_volume |-> RAdd(acc.total_volume, det),
     c |-> [axis \in 1..3 |->
              RAdd(acc.c[axis],
                   RMul(det, RAdd(RAdd(t[1][axis], t[2][axis]), t[3][axis])))]]

RECURSIVE CentroidSum(_, _, _)
CentroidSum(tris, k, acc) ==
    IF Strict(acc) /\ k <= Len(tris)
    THEN CentroidSum(tris, k + 1,
                     AddTriangle(acc, tris[k], Det(tris[k][1], tris[k][2], tris[k][3])))
    ELSE acc

\* The sums of the loops of centroid and volume
CellSums(cell) ==
    CentroidSum(FaceTriangles(cell, 1, 0), 1,
                [total_volume |-> Zero, c |-> <<Zero, Zero, Zero>>])

\* |v| < 1e-9
AbsLtEps(v) == Abs(v[1]) <= (v[2] - 1) \div EpsDen

Scaled(c, factor) == <<RMul(c[1], factor), RMul(c[2], factor), RMul(c[3], factor)>>

\* The return value of centroid: the origin when |total_volume| < 1e-9
CentroidOf(sum) ==
    IF AbsLtEps(sum.total_volume) THEN <<Zero, Zero, Zero>>
    ELSE Scaled(sum.c, RDiv(One, RMul(R(4), sum.total_volume)))

\* CellFaces::centroid
centroid(cell) == CentroidOf(CellSums(cell))

RAbs(v) == IF RSign(v) < 0 THEN RNeg(v) ELSE v

\* CellFaces::volume
volume(cell) == RAbs(RDiv(CellSums(cell).total_volume, R(6)))

(***************************************************************************)
(* Inputs of the model.                                                    *)
(***************************************************************************)
\* Positions handed to set_generators and set_generator.  PtOut lies outside
\* the domain box; no driver looks at the box when it stores a generator.
PtA == P3(1, 1, 1)

PtB == P3(3, 1, 1)

PtC == P3(1, 3, 1)

PtD == P3(3, 3, 1)

PtOut == P3(5, 1, 1)

PointInputs == {PtB, PtOut}

GeneratorInputs ==
    {<<PtA, PtB>>, <<PtA, PtOut>>, <<PtA, PtA, PtB>>, <<PtA, PtB, PtC, PtD>>}

\* The wall x >= 2
WallX == [id |-> -1000, point |-> P3(2, 0, 0), normal |-> P3(1, 0, 0)]

WallInputs == {WallX}

GridShapes == {<<1, 1, 1>>, <<2, 1, 1>>}

Capacities == {1, 2}

\* At most MaxOps calls that change generators, walls or the grid shape are
\* made on one tessellation; calculate() is not counted.
MaxOps == 2

\* Worker threads of the pool that runs calculate()
NThreads == 2

(***************************************************************************)
(* State.                                                                  *)
(*   kind        "grid": a Tessellation (src/src/tessellation.rs);         *)
(*               "moctree": a TessellationMoctree;                         *)
(*               "cell": a single CellFaces, cells[1], that is clipped     *)
(*   ties        the order the build gives to equals.  Octree: the order   *)
(*               in which the BinaryHeap of the iterator pops point items  *)
(*               of equal distance, by rising ("low") or by falling        *)
(*               ("high") index.  Grid: the order sort_unstable_by gives   *)
(*               to offsets of equal key, as pushed ("low") or reversed    *)
(*               ("high").  The build fixes the order; the model leaves    *)
(*               open which of the two it is.                              *)
(*   generators, walls, cells   the fields of that name                    *)
(*   grid        the grid fields of a Tessellation (NoGrid otherwise)      *)
(*   octree      the octree of a TessellationMoctree (NoOctree otherwise)  *)
(*   pc          "idle", "calculate" while calculate() runs, "crashed"     *)
(*               once an insert into the octree has failed to return       *)
(*   calc        the parallel iteration of calculate(): the indices not    *)
(*               yet taken, the state of every worker, the finished cells  *)
(*               in the order of their completion, and whether a closure   *)
(*               has started on a scratch an earlier closure had used      *)
(*   last        the last call that returned: its name, and for            *)
(*               set_generator and relax whether the call went on to write *)
(*               (ok); for calculate the order in which the indices        *)
(*               completed and calc.reused                                 *)
(*   ops         the number of counted calls made so far                   *)
(***************************************************************************)
VARIABLES kind, ties, generators, walls, cells, grid, octree, pc, calc, last, ops

vars == <<kind, ties, generators, walls, cells, grid, octree, pc, calc, last, ops>>

NoGrid == [res |-> <<>>, bins |-> <<>>, generator_bin_ids |-> <<>>, bin_search_order |-> <<>>]

NoOctree == [capacity |-> 0, root |-> Moctree(bounds), diverged |-> FALSE]

\* A worker that runs no closure call: its scratch is what map_init gave it
\* or what its last call left behind
NoTask == [i |-> None]

IdleWorker(scratch) == [busy |-> FALSE, scratch |-> scratch, task |-> NoTask]

CalcIdle ==
    [pending |-> {}, out |-> <<>>, reused |-> FALSE,
     workers |-> [w \in 1..NThreads |-> IdleWorker(ScratchDefault)]]

Count == Len(generators)

(***************************************************************************)
(* set_generators, set_generator, add_wall, prune_outside_generators as    *)
(* functions of the fields they read: the result is the triple of fields   *)
(* they write.                                                             *)
(***************************************************************************)
\* The tail of set_generators: the kept generators are stored and the index
\* is rebuilt from them
Reindex(k, g, o, valid) ==
    [generators |-> valid,
     grid |-> IF k = "grid" THEN GridSetGenerators(g, valid) ELSE g,
     octree |-> IF k = "moctree" THEN OctreeSetGenerators(o, valid) ELSE o]

\* The generators are filtered by the walls, then the index is rebuilt
set_generators(k, ws, g, o, gs) == Reindex(k, g, o, FilterByWalls(ws, gs))

\* if new_generators.len() != self.generators.len() { set_generators(..) }
PruneTo(k, ws, g, o, gs, new_generators) ==
    IF Len(new_generators) # Len(gs)
    THEN set_generators(k, ws, g, o, new_generators)
    ELSE [generators |-> gs, grid |-> g, octree |-> o]

prune_outside_generators(k, ws, g, o, gs) ==
    PruneTo(k, ws, g, o, gs, FilterByWalls(ws, gs))

\* Fault: the position is written to every generator
set_generator_all(k, g, o, gs, index, p) ==
    [generators |-> [j \in 1..Len(gs) |-> p],
     grid |-> IF k = "grid" THEN GridUpdateGenerator(g, index, p) ELSE g,
     octree |-> IF k = "moctree"
                THEN OctreeSetGenerators(o, [j \in 1..Len(gs) |-> p])
                ELSE o]

\* set_generator on an index in range and a position all walls contain.
\* Tessellation moves the index between bins and writes the position;
\* TessellationMoctree writes the position and rebuilds the octree.
set_generator(k, g, o, gs, index, p) ==
    [generators |-> [gs EXCEPT ![index + 1] = p],
     grid |-> IF k = "grid" THEN GridUpdateGenerator(g, index, p) ELSE g,
     octree |-> IF k = "moctree"
                THEN OctreeSetGenerators(o, [gs EXCEPT ![index + 1] = p])
                ELSE o]

\* add_wall: Tessellation prunes after the push; TessellationMoctree only pushes
add_wall(k, ws, g, o, gs, wall) ==
    IF k = "grid"
    THEN prune_outside_generators(k, Append(ws, wall), g, o, gs)
    ELSE [generators |-> gs, grid |-> g, octree |-> o]

\* Fault: the centroid is taken of empty cells too
RelaxedAll(cs, gs) == [i \in 1..Len(gs) |-> centroid(cs[i])]

\* The new positions of relax: the centroid of the cell, or the old position
\* when the cell has no vertices
Relaxed(cs, gs) ==
    [i \in 1..Len(gs) |-> IF cs[i].vertices = <<>> THEN gs[i] ELSE centroid(cs[i])]

(***************************************************************************)
(* calculate(): the closure run for one generator index, in steps.  A task *)
(* is [i, g, cell, r2, k, p, queue, visited, done]:                        *)
(*   r2       current_max_dist_sq                                          *)
(*   k, p     grid: position in bin_search_order and in the bin's list;    *)
(*            p = 0 when the tests on offset k are still to be made        *)
(*   queue    octree: the heap of the nearest iterator                     *)
(*   visited  the candidates j # i the search has handed to the body of    *)
(*            the neighbour loop so far                                    *)
(*   done     the neighbour loop has ended; the cell is the result         *)
(***************************************************************************)
\* wall.cut(.., |point, normal| cell.clip_with_scratch(point, normal, id, scratch, None))
ClipPlane(cell, scratch, plane, id) ==
    clip_with_scratch(cell, plane.point, plane.normal, id, scratch, NoGenerator)

\* for wall in walls { wall.cut(..) }; c carries the cell and the scratch
RECURSIVE WallCuts(_, _, _)
WallCuts(c, ws, k) ==
    IF Strict(c) /\ k <= Len(ws)
    THEN WallCuts(ClipPlane(c.cell, c.scratch, cut(ws[k]), ws[k].id), ws, k + 1)
    ELSE c

\* The state of the closure when the neighbour loop starts: the initial r2
\* and the start of the search
NewTask(k, o, i, g, c) ==
    [scratch |-> c.scratch,
     task |-> [i |-> i, g |-> g, cell |-> c.cell,
               r2 |-> max_radius_sq(c.cell, g),
               k |-> 1, p |-> 0,
               queue |-> IF k = "moctree" THEN nearest_iter(o, g) ELSE {},
               visited |-> {}, done |-> FALSE]]

\* Fault: the neighbour loop starts from the seed cell, the wall cuts are lost
StartTaskUncut(k, gs, ws, o, i, scratch) ==
    NewTask(k, o, i, gs[i + 1],
            [cell |-> CellNew(i), scratch |-> scratch, modified |-> FALSE, radius |-> Zero])

\* The head of the closure: the seed cell and the wall cuts
StartTask(k, gs, ws, o, i, scratch) ==
    NewTask(k, o, i, gs[i + 1],
            WallCuts([cell |-> CellNew(i), scratch |-> scratch,
                      modified |-> FALSE, radius |-> Zero], ws, 1))

Four(r2) == RMul(R(4), r2)

\* if let (true, new_radius) = clip_with_scratch(..) { current_max_dist_sq = new_radius }
Clipped(t, c) ==
    [scratch |-> c.scratch,
     task |-> [t EXCEPT !.cell = c.cell,
                        !.r2 = IF c.modified THEN c.radius ELSE t.r2]]

\* Fault: the clipper is handed the neighbour as the generator
BisectFromNeighbour(t, scratch, gs, j) ==
    Clipped(t, clip_with_scratch(t.cell, Midpoint(t.g, gs[j + 1]),
                                 VSub(gs[j + 1], t.g), j, scratch, gs[j + 1]))

\* The clip of the cell by the bisector of g and generator j
Bisect(t, scratch, gs, j) ==
    Clipped(t, clip_with_scratch(t.cell, Midpoint(t.g, gs[j + 1]),
                                 VSub(gs[j + 1], t.g), j, scratch, t.g))

\* Grid, lines 194-204: a candidate farther than 2r is skipped
GridVisit(t, scratch, gs, j) ==
    IF RGt(DistSq(gs[j + 1], t.g), Four(t.r2))
    THEN [scratch |-> scratch, task |-> t]
    ELSE Bisect(t, scratch, gs, j)

\* The coordinates of a bin (lines 139-143)
BinCoord(res, bin_idx) ==
    <<(bin_idx % (res[1] * res[2])) % res[1],
      (bin_idx % (res[1] * res[2])) \div res[1],
      bin_idx \div (res[1] * res[2])>>

\* The position of g along an axis, in bins, relative to the bin of g
RelPos(res, g, idx, axis) ==
    RSub(RMul(RSub(g[axis], bounds.min[axis]), GridScale(res, axis)), R(idx[axis]))

\* dx_dist.max(0.0) for one axis (lines 146-148 and 168-188)
AxisDist(res, g, idx, d, axis) ==
    RMax(IF d > 0 THEN RMul(RSub(R(d), RelPos(res, g, idx, axis)), CellSize(res, axis))
         ELSE IF d < 0
              THEN RMul(RAdd(R(-(d + 1)), RelPos(res, g, idx, axis)), CellSize(res, axis))
              ELSE Zero,
         Zero)

BinDistSq(res, g, idx, off) ==
    RAdd(RAdd(RMul(AxisDist(res, g, idx, off[1], 1), AxisDist(res, g, idx, off[1], 1)),
              RMul(AxisDist(res, g, idx, off[2], 2), AxisDist(res, g, idx, off[2], 2))),
         RMul(AxisDist(res, g, idx, off[3], 3), AxisDist(res, g, idx, off[3], 3)))

InGrid(res, b) == \A axis \in 1..3 : b[axis] >= 0 /\ b[axis] < res[axis]

NotFound == [found |-> FALSE, k |-> 0, p |-> 0, j |-> None]

\* The bin at offset off of the bin with coordinates idx, and its index
BinAt(idx, off) == <<idx[1] + off[1], idx[2] + off[2], idx[3] + off[3]>>

BinIndex(res, b) == b[1] + b[2] * res[1] + b[3] * res[1] * res[2]

Found(k, p, j) == [found |-> TRUE, k |-> k, p |-> p, j |-> j]

Least2(S) == CHOOSE x \in S : \A y \in S : x <= y

\* The bin at position k of the search order, seen from the bin of generator t.i
BinOf(g, t, k) ==
    BinAt(BinCoord(g.res, g.generator_bin_ids[t.i + 1]), g.bin_search_order[k])

\* if min_d2 > 4 * max_dist_sq { break }
Broken(g, t, k) == RGt(get_min_dist_sq(g.bin_search_order[k], g.res), Four(t.r2))

\* The bin is in the grid and not farther than 2r: process_bin walks it
Entered(g, t, k) ==
    /\ InGrid(g.res, BinOf(g, t, k))
    /\ RLe(BinDistSq(g.res, t.g, BinCoord(g.res, g.generator_bin_ids[t.i + 1]),
                     g.bin_search_order[k]),
           Four(t.r2))

\* The positions from lo on in the bin at position k that hold an index j # i
Hits(g, t, k, lo) ==
    {p \in lo..Len(g.bins[BinIndex(g.res, BinOf(g, t, k)) + 1]) :
        g.bins[BinIndex(g.res, BinOf(g, t, k)) + 1][p] # t.i}

FoundAt(g, t, k, p) == Found(k, p, g.bins[BinIndex(g.res, BinOf(g, t, k)) + 1][p])

\* The positions of the search order at which the loop breaks
Breaks(g, t, first) == {k \in first..Len(g.bin_search_order) : Broken(g, t, k)}

\* The positions from `first` up to the break whose bin is walked and holds
\* a candidate
Walked(g, t, first, stop) ==
    {k \in first..(stop - 1) : Entered(g, t, k) /\ Hits(g, t, k, 1) # {}}

FirstOf(g, t, ks) ==
    IF ks = {} THEN NotFound ELSE FoundAt(g, t, Least2(ks), Least2(Hits(g, t, Least2(ks), 1)))

ScanOffsets(g, t, first, breaks) ==
    FirstOf(g, t, Walked(g, t, first,
                         IF breaks = {} THEN Len(g.bin_search_order) + 1
                         ELSE Least2(breaks)))

\* The loop over bin_search_order (lines 213-219) and process_bin, from
\* position k of the search order and position p of its bin (p = 0: the
\* tests on offset k are still to be made) up to the next candidate j # i.
\* No clip is made in between, so r2 is the same in all tests: the loop
\* breaks at the first offset with get_min_dist_sq > 4 r2, and before that
\* it walks every bin that is in the grid and not farther than 2r.
GridScan(g, t, k, p) ==
    IF k > Len(g.bin_search_order) THEN NotFound
    ELSE IF p > 0 /\ Hits(g, t, k, p) # {} THEN FoundAt(g, t, k, Least2(Hits(g, t, k, p)))
    ELSE IF p > 0 THEN ScanOffsets(g, t, k + 1, Breaks(g, t, k + 1))
    ELSE ScanOffsets(g, t, k, Breaks(g, t, k))

\* The search stands behind candidate n.j, which has been visited
Visited(v, n) ==
    [scratch |-> v.scratch,
     task |-> [v.task EXCEPT !.k = n.k, !.p = n.p + 1, !.visited = @ \cup {n.j}]]

GridStepAt(gs, t, scratch, n) ==
    IF n.found THEN Visited(GridVisit(t, scratch, gs, n.j), n)
    ELSE [scratch |-> scratch, task |-> [t EXCEPT !.done = TRUE]]

\* One round of the grid's neighbour loop: the next candidate is visited,
\* or the loop ends
GridStep(g, gs, t, scratch) == GridStepAt(gs, t, scratch, GridScan(g, t, t.k, t.p))

\* One round of the loop over the octree's iterator (lines 100-123 of
\* tessellation_moctree.rs): next() has left the queue t.queue and yields
\* the point item `item` of it
OctreeStep(gs, t, scratch, item) ==
    LET rest == t.queue \ {item}
        j == item.point.index
    IN  IF j = t.i
        THEN [scratch |-> scratch, task |-> [t EXCEPT !.queue = rest]]
        ELSE IF RGt(DistSq(gs[j + 1], t.g), Four(t.r2))
        THEN [scratch |-> scratch, task |-> [t EXCEPT !.queue = rest, !.done = TRUE]]
        ELSE Bisect([t EXCEPT !.queue = rest, !.visited = @ \cup {j}], scratch, gs, j)

\* Fault: the results are stored in the order of their completion
CollectAsCompleted(out, n) == [k \in 1..Len(out) |-> out[k].cell]

\* collect(): the result of index i is written to position i
Collect(out, n) ==
    [i \in 1..n |-> (CHOOSE e \in {out[k] : k \in 1..Len(out)} : e.index = i - 1).cell]

(***************************************************************************)
(* Construction                                                            *)
(***************************************************************************)
Returned(op, ok) == [op |-> op, ok |-> ok]

\* Tessellation::new(bounds, nx, ny, nz) or TessellationMoctree::new(bounds, capacity)
Init ==
    /\ kind \in {"grid", "moctree"}
    /\ ties \in {"low", "high"}
    /\ generators = <<>>
    /\ walls = <<>>
    /\ cells = <<>>
    /\ \/ kind = "grid" /\ grid \in {GridNew(res, ties) : res \in GridShapes} /\ octree = NoOctree
       \/ kind = "moctree" /\ grid = NoGrid
          /\ octree \in {OctreeNew(capacity) : capacity \in Capacities}
    /\ pc = "idle"
    /\ calc = CalcIdle
    /\ last = Returned("new", TRUE)
    /\ ops = 0

(***************************************************************************)
(* The calls that change generators, walls or the grid shape               *)
(***************************************************************************)
\* The three fields a call writes; a call whose octree insert does not
\* return never returns itself
Write(r, op, ok) ==
    /\ generators' = r.generators
    /\ grid' = r.grid
    /\ octree' = r.octree
    /\ pc' = IF r.octree.diverged THEN "crashed" ELSE "idle"
    /\ last' = Returned(op, ok)
    /\ ops' = ops + 1

Callable == pc = "idle" /\ ops < MaxOps

SetGenerators(gs) ==
    /\ Callable
    /\ Write(set_generators(kind, walls, grid, octree, gs), "set_generators", TRUE)
    /\ UNCHANGED <<kind, ties, walls, cells, calc>>

\* Fault: the index is not compared with the length, the write to
\* generators[offset] panics
SetGeneratorUnchecked(index, p) ==
    /\ Callable
    /\ IF index < Count /\ InsideWalls(walls, p)
       THEN Write(set_generator(kind, grid, octree, generators, index, p),
                  "set_generator", TRUE)
       ELSE /\ last' = Returned("set_generator", FALSE)
            /\ ops' = ops + 1
            /\ pc' = IF InsideWalls(walls, p) THEN "crashed" ELSE pc
            /\ UNCHANGED <<generators, grid, octree>>
    /\ UNCHANGED <<kind, ties, walls, cells, calc>>

\* if offset + 2 < self.generators.len(): index < N; a wall that does not
\* contain the position makes the call return at once
SetGenerator(index, p) ==
    /\ Callable
    /\ IF index < Count /\ InsideWalls(walls, p)
       THEN Write(set_generator(kind, grid, octree, generators, index, p),
                  "set_generator", TRUE)
       ELSE /\ last' = Returned("set_generator", FALSE)
            /\ ops' = ops + 1
            /\ UNCHANGED <<generators, grid, octree, pc>>
    /\ UNCHANGED <<kind, ties, walls, cells, calc>>

AddWall(wall) ==
    /\ Callable
    /\ walls' = Append(walls, wall)
    /\ Write(add_wall(kind, walls, grid, octree, generators, wall), "add_wall", TRUE)
    /\ UNCHANGED <<kind, ties, cells, calc>>

\* Fault: clear_walls drops the stored cells
ClearWallsAndCells ==
    /\ Callable
    /\ walls' = <<>>
    /\ cells' = <<>>
    /\ last' = Returned("clear_walls", TRUE)
    /\ ops' = ops + 1
    /\ UNCHANGED <<kind, ties, generators, grid, octree, pc, calc>>

ClearWalls ==
    /\ Callable
    /\ walls' = <<>>
    /\ last' = Returned("clear_walls", TRUE)
    /\ ops' = ops + 1
    /\ UNCHANGED <<kind, ties, generators, cells, grid, octree, pc, calc>>

\* relax returns at once unless there is one stored cell per generator
Relax ==
    /\ Callable
    /\ IF Len(cells) = Count
       THEN Write(set_generators(kind, walls, grid, octree, Relaxed(cells, generators)),
                  "relax", TRUE)
       ELSE /\ last' = Returned("relax", FALSE)
            /\ ops' = ops + 1
            /\ UNCHANGED <<generators, grid, octree, pc>>
    /\ UNCHANGED <<kind, ties, walls, cells, calc>>

\* set_grid_shape: the new search order, then set_generators on the current data
SetGridShape(res) ==
    /\ Callable
    /\ kind = "grid"
    /\ Write(set_generators(kind, walls, GridNew(res, ties), octree, generators),
             "set_grid_shape", TRUE)
    /\ UNCHANGED <<kind, ties, walls, cells, calc>>

\* The points random_generators can hand to set_generators: every sample
\* lies in the box; a sample is kept when all walls contain it; sampling
\* ends after count kept samples or count * 1000 attempts
InBox == {p \in {PtA, PtB} : BoxContains(bounds, p)}

RandomDraws(ws, count) ==
    UNION {{s \in [1..n -> InBox] : \A k \in 1..n : InsideWalls(ws, s[k])} :
           n \in (IF ws = <<>> THEN {count} ELSE 0..count)}

RandomGenerators(count) ==
    /\ Callable
    /\ \E points \in RandomDraws(walls, count) :
          Write(set_generators(kind, walls, grid, octree, points),
                "random_generators", TRUE)
    /\ UNCHANGED <<kind, ties, walls, cells, calc>>

(***************************************************************************)
(* calculate()                                                             *)
(***************************************************************************)
CalcStart ==
    /\ pc = "idle"
    /\ pc' = "calculate"
    /\ calc' = [CalcIdle EXCEPT !.pending = 0..(Count - 1)]
    /\ UNCHANGED <<kind, ties, generators, walls, cells, grid, octree, last, ops>>

\* The scratch the closure of worker w starts with
TakenScratch(w, fresh) ==
    IF fresh THEN ScratchDefault ELSE calc.workers[w].scratch

Taken(c, w, i, used, s) ==
    [c EXCEPT !.pending = @ \ {i},
              !.reused = @ \/ used,
              !.workers[w] = [busy |-> TRUE, scratch |-> s.scratch, task |-> s.task]]

\* Worker w takes index i.  Tessellation hands the closure the scratch of
\* map_init: a fresh one, or the one the worker used for its last index.
\* TessellationMoctree creates the scratch inside the closure.
CalcTake(w, i, fresh) ==
    /\ pc = "calculate"
    /\ ~calc.workers[w].busy
    /\ i \in calc.pending
    /\ fresh \/ kind = "grid"
    /\ calc' = Taken(calc, w, i, TakenScratch(w, fresh) # ScratchDefault,
                     StartTask(kind, generators, walls, octree, i, TakenScratch(w, fresh)))
    /\ UNCHANGED <<kind, ties, generators, walls, cells, grid, octree, pc, last, ops>>

Stepped(c, w, s) ==
    [c EXCEPT !.workers[w].scratch = s.scratch, !.workers[w].task = s.task]

\* One call of next() on the octree's iterator and the round of the loop on
\* what it yields; q is the queue when the front item is a point or the
\* queue is empty
IterNext(w, q) ==
    \/ \E item \in Poppable(q, ties) :
          calc' = Stepped(calc, w,
                          OctreeStep(generators,
                                     [calc.workers[w].task EXCEPT !.queue = q],
                                     calc.workers[w].scratch, item))
    \/ /\ q = {}
       /\ calc' = [calc EXCEPT !.workers[w].task.queue = q,
                               !.workers[w].task.done = TRUE]

\* Worker w makes one round of the neighbour loop
CalcVisit(w) ==
    /\ pc = "calculate"
    /\ calc.workers[w].busy
    /\ ~calc.workers[w].task.done
    /\ \/ /\ kind = "grid"
          /\ calc' = Stepped(calc, w,
                             GridStep(grid, generators, calc.workers[w].task,
                                      calc.workers[w].scratch))
       \/ /\ kind = "moctree"
          /\ IterNext(w, Advance(octree, calc.workers[w].task.queue,
                                      calc.workers[w].task.g))
    /\ UNCHANGED <<kind, ties, generators, walls, cells, grid, octree, pc, last, ops>>

\* The closure returns the cell
CalcFinish(w) ==
    /\ pc = "calculate"
    /\ calc.workers[w].busy
    /\ calc.workers[w].task.done
    /\ calc' = [calc EXCEPT
                   !.out = Append(@, [index |-> calc.workers[w].task.i,
                                      cell |-> calc.workers[w].task.cell]),
                   !.workers[w] = IdleWorker(IF kind = "grid"
                                             THEN calc.workers[w].scratch
                                             ELSE ScratchDefault)]
    /\ UNCHANGED <<kind, ties, generators, walls, cells, grid, octree, pc, last, ops>>

Computed(out, reused) ==
    [op |-> "calculate", ok |-> TRUE, reused |-> reused,
     order |-> [k \in 1..Len(out) |-> out[k].index]]

\* All closures have returned: the collected vector replaces self.cells
CalcEnd ==
    /\ pc = "calculate"
    /\ calc.pending = {}
    /\ \A w \in 1..NThreads : ~calc.workers[w].busy
    /\ cells' = Collect(calc.out, Count)
    /\ calc' = CalcIdle
    /\ pc' = "idle"
    /\ last' = Computed(calc.out, calc.reused)
    /\ UNCHANGED <<kind, ties, generators, walls, grid, octree, ops>>

(***************************************************************************)
(* Spec: any sequence of at most MaxOps calls on a new tessellation, with  *)
(* calculate() in between.  Of calculate() Spec follows one run: a single  *)
(* worker takes the indices in ascending order.  SpecPar has the other     *)
(* runs.                                                                   *)
(***************************************************************************)
\* set_generator is called with an index in 0..MaxIndex
MaxIndex == 1

\* random_generators is called with a count in 1..MaxCount
MaxCount == 1

CalcTakeNext ==
    \E i \in calc.pending :
        /\ \A m \in calc.pending : i <= m
        /\ CalcTake(1, i, kind = "moctree")

Next ==
    \/ \E gs \in GeneratorInputs : SetGenerators(gs)
    \/ \E index \in 0..MaxIndex, p \in PointInputs : SetGenerator(index, p)
    \/ \E wall \in WallInputs : AddWall(wall)
    \/ ClearWalls
    \/ Relax
    \/ \E res \in GridShapes : SetGridShape(res)
    \/ \E count \in 1..MaxCount : RandomGenerators(count)
    \/ CalcStart
    \/ CalcTakeNext
    \/ CalcVisit(1)
    \/ CalcFinish(1)
    \/ CalcEnd

Spec == Init /\ [][Next]_vars

(***************************************************************************)
(* SpecPar: the first calculate() on a tessellation that has its walls and *)
(* its generators, run by NThreads workers that take the indices in any    *)
(* order.                                                                  *)
(***************************************************************************)
ParWalls == {<<>>, <<WallX>>}

ParGenerators == {<<PtB, PtD>>, <<PtB, PtOut>>, <<PtA, PtA, PtB>>, <<PtA, PtB, PtC>>}

Indexed(r) ==
    /\ ~r.octree.diverged
    /\ generators = r.generators
    /\ grid = r.grid
    /\ octree = r.octree

InitPar ==
    /\ kind \in {"grid", "moctree"}
    /\ ties \in {"low", "high"}
    /\ walls \in ParWalls
    /\ cells = <<>>
    /\ \E gs \in ParGenerators :
          \E g \in (IF kind = "grid" THEN {GridNew(res, ties) : res \in GridShapes} ELSE {NoGrid}) :
          \E o \in (IF kind = "moctree" THEN {OctreeNew(capacity) : capacity \in Capacities}
                    ELSE {NoOctree}) :
             Indexed(set_generators(kind, walls, g, o, gs))
    /\ pc = "idle"
    /\ calc = CalcIdle
    /\ last = Returned("set_generators", TRUE)
    /\ ops = 0

NextPar ==
    \/ cells = <<>> /\ CalcStart
    \/ \E w \in 1..NThreads, fresh \in BOOLEAN : \E i \in calc.pending : CalcTake(w, i, fresh)
    \/ \E w \in 1..NThreads : CalcVisit(w)
    \/ \E w \in 1..NThreads : CalcFinish(w)
    \/ CalcEnd

SpecPar == InitPar /\ [][NextPar]_vars

(***************************************************************************)
(* SpecClip: CellFaces::clip_with_scratch as a function.  The box cell is  *)
(* clipped at most MaxClips times by planes of ClipPlanes, with and        *)
(* without a generator.  `last` records the call: the cell before it, the  *)
(* plane, was_modified (ok) and the radius returned; the scratch is kept   *)
(* in the first worker of calc.                                            *)
(***************************************************************************)
MaxClips == 2

\* 1 / (2 * 10^9): a normal of this length puts a vertex one unit away from
\* the plane at distance 0.5e-9, two units at 1e-9, three units at 1.5e-9
Tiny == <<1, 2000000000>>

Plane(point, normal, id) == [point |-> point, normal |-> normal, id |-> id]

ClipPlanes ==
    {Plane(P3(x, 0, 0), <<Tiny, Zero, Zero>>, 10 + x) : x \in 1..3}
    \cup {Plane(P3(x, 0, 0), <<RNeg(Tiny), Zero, Zero>>, 20 + x) : x \in 1..3}
    \cup {Plane(P3(2, 0, 0), P3(1, 0, 0), 31), Plane(P3(2, 0, 0), P3(-1, 0, 0), 32),
          Plane(P3(4, 0, 0), P3(1, 0, 0), 33), Plane(P3(0, 0, 0), P3(1, 0, 0), 34),
          Plane(P3(0, 2, 0), P3(0, 1, 0), 35), Plane(P3(2, 2, 0), P3(1, 1, 0), 36)}

ClipGenerators == {NoGenerator, PtA}

InitClip ==
    /\ kind = "cell"
    /\ ties = "low"
    /\ generators = <<>>
    /\ walls = <<>>
    /\ cells = <<CellNew(0)>>
    /\ grid = NoGrid
    /\ octree = NoOctree
    /\ pc = "idle"
    /\ calc = CalcIdle
    /\ last = Returned("new", TRUE)
    /\ ops = 0

ClipReturned(before, plane, generator, c) ==
    [op |-> "clip", ok |-> c.modified, radius |-> c.radius,
     before |-> before, plane |-> plane, generator |-> generator]

Clip(plane, generator, c) ==
    /\ cells' = <<c.cell>>
    /\ calc' = [calc EXCEPT !.workers[1].scratch = c.scratch]
    /\ last' = ClipReturned(cells[1], plane, generator, c)
    /\ ops' = ops + 1
    /\ UNCHANGED <<kind, ties, generators, walls, grid, octree, pc>>

ClipCall(plane, generator) ==
    /\ kind = "cell"
    /\ ops < MaxClips
    /\ Clip(plane, generator,
            clip_with_scratch(cells[1], plane.point, plane.normal, plane.id,
                              calc.workers[1].scratch, generator))

NextClip == \E plane \in ClipPlanes, generator \in ClipGenerators : ClipCall(plane, generator)

SpecClip == InitClip /\ [][NextClip]_vars

(***************************************************************************)
(* CellEdges (src/src/cell_edges.rs): a polyhedron as a vertex list and a  *)
(* flat adjacency list.  The edges of vertex i are the entries             *)
(* vertex_offsets[i] .. vertex_offsets[i] + vertex_counts[i] - 1 of        *)
(* edge_buffer; neighbor_buffer holds, per entry, the label of the face to *)
(* the left of that directed edge.                                         *)
(***************************************************************************)
\* CellEdges::new(id, bounds): the box, three edges per vertex
EdgesNew(id) ==
    [id |-> id,
     vertices |-> CellNew(id).vertices,
     edge_buffer |-> <<1, 4, 3,  2, 5, 0,  3, 6, 1,  0, 7, 2,
                       5, 7, 0,  1, 6, 4,  2, 7, 5,  3, 4, 6>>,
     neighbor_buffer |->
         <<BOX_ID_FRONT, BOX_ID_LEFT, BOX_ID_BOTTOM,  BOX_ID_RIGHT, BOX_ID_FRONT, BOX_ID_BOTTOM,
           BOX_ID_BACK, BOX_ID_RIGHT, BOX_ID_BOTTOM,  BOX_ID_LEFT, BOX_ID_BACK, BOX_ID_BOTTOM,
           BOX_ID_TOP, BOX_ID_LEFT, BOX_ID_FRONT,     BOX_ID_RIGHT, BOX_ID_TOP, BOX_ID_FRONT,
           BOX_ID_BACK, BOX_ID_TOP, BOX_ID_RIGHT,     BOX_ID_LEFT, BOX_ID_TOP, BOX_ID_BACK>>,
     vertex_offsets |-> <<0, 3, 6, 9, 12, 15, 18, 21>>,
     vertex_counts |-> <<3, 3, 3, 3, 3, 3, 3, 3>>]

\* CellEdgesScratch::default(): nine empty buffers
EdgesScratchDefault ==
    [vertices |-> <<>>, edge_buffer |-> <<>>, neighbor_buffer |-> <<>>,
     vertex_offsets |-> <<>>, vertex_counts |-> <<>>, dists |-> <<>>,
     old_to_new |-> <<>>, face_cut_map |-> <<>>, cut_infos |-> <<>>]

\* The least element of a non-empty set of integers
First(S) == CHOOSE x \in S : \A y \in S : x <= y

\* face_cut_map.iter().filter(|(f, _, _)| *f == face).count()
CutCount(face_cut_map, face) ==
    Cardinality({k \in 1..Len(face_cut_map) : face_cut_map[k][1] = face})

\* The cut vertex p of an edge from kept vertex new_idx to an outside
\* neighbour is pushed with a placeholder offset and count; the cut is
\* recorded unless one of its two faces already has two cuts
CutAt(st, p, face_left, face_right, new_idx, generator) ==
    IF CutCount(st.face_cut_map, face_left) < 2 /\ CutCount(st.face_cut_map, face_right) < 2
    THEN [st EXCEPT !.vertices = Append(@, p),
                    !.vertex_offsets = Append(@, 0),
                    !.vertex_counts = Append(@, 0),
                    !.max_d2 = UpdMax(@, p, generator),
                    !.face_cut_map = @ \o << <<face_left, Len(st.vertices), TRUE>>,
                                             <<face_right, Len(st.vertices), FALSE>> >>,
                    !.cut_infos = Append(@, <<Len(st.vertices), new_idx,
                                              face_left, face_right>>)]
    ELSE [st EXCEPT !.vertices = Append(@, p),
                    !.vertex_offsets = Append(@, 0),
                    !.vertex_counts = Append(@, 0),
                    !.max_d2 = UpdMax(@, p, generator)]

\* Edge k of old vertex i: nothing when the neighbour is kept, else the cut.
\* face_right is neighbor_buffer[start + (k + count - 1) % count].
CutEdge(st, cell, dists, i, k, new_idx, generator) ==
    IF ~GtEps(dists[cell.edge_buffer[cell.vertex_offsets[i + 1] + k + 1] + 1])
    THEN st
    ELSE CutAt(st,
               Lerp(cell.vertices[i + 1],
                    cell.vertices[cell.edge_buffer[cell.vertex_offsets[i + 1] + k + 1] + 1],
                    IntersectT(dists[i + 1],
                               dists[cell.edge_buffer[cell.vertex_offsets[i + 1] + k + 1] + 1])),
               cell.neighbor_buffer[cell.vertex_offsets[i + 1] + k + 1],
               cell.neighbor_buffer[cell.vertex_offsets[i + 1]
                                    + ((k + cell.vertex_counts[i + 1] - 1)
                                       % cell.vertex_counts[i + 1]) + 1],
               new_idx, generator)

RECURSIVE CutEdges(_, _, _, _, _, _, _)
CutEdges(st, cell, dists, i, k, new_idx, generator) ==
    IF Strict(st) /\ k < cell.vertex_counts[i + 1]
    THEN CutEdges(CutEdge(st, cell, dists, i, k, new_idx, generator),
                  cell, dists, i, k + 1, new_idx, generator)
    ELSE st

\* Step 1 for old vertex i: it is copied if d <= 1e-9, and its edges to
\* outside neighbours are cut.  scratch.edge_buffer is empty during step 1,
\* so the offset pushed for the kept vertex is 0.
EdgesKeepVertex(st, cell, dists, i, generator) ==
    IF ~GtEps(dists[i + 1])
    THEN CutEdges([st EXCEPT !.vertices = Append(@, cell.vertices[i + 1]),
                             !.old_to_new = Append(@, Len(st.vertices)),
                             !.max_d2 = UpdMax(@, cell.vertices[i + 1], generator),
                             !.vertex_offsets = Append(@, Len(st.edge_buffer)),
                             !.vertex_counts = Append(@, 0)],
                  cell, dists, i, 0, Len(st.vertices), generator)
    ELSE [st EXCEPT !.old_to_new = Append(@, None)]

RECURSIVE EdgesKeepVertices(_, _, _, _, _)
EdgesKeepVertices(st, cell, dists, i, generator) ==
    IF Strict(st) /\ i < Len(cell.vertices)
    THEN EdgesKeepVertices(EdgesKeepVertex(st, cell, dists, i, generator),
                           cell, dists, i + 1, generator)
    ELSE st

\* for &(p_idx, u, f_l, _) in cut_infos { if u == new_idx && f_l == face_left { .. break } }
FindCut(cut_infos, new_idx, face_left) ==
    IF \E c \in 1..Len(cut_infos) :
          cut_infos[c][2] = new_idx /\ cut_infos[c][3] = face_left
    THEN cut_infos[First({c \in 1..Len(cut_infos) :
                            cut_infos[c][2] = new_idx /\ cut_infos[c][3] = face_left})][1]
    ELSE None

PushEdge(st, to, face) ==
    [st EXCEPT !.edge_buffer = Append(@, to), !.neighbor_buffer = Append(@, face)]

\* Step 2, edge k of old vertex i: the edge to a kept neighbour is
\* renumbered; the edge to a dropped neighbour becomes the edge to the
\* recorded cut vertex, or is dropped when no cut is recorded
KeptEdge(st, new_idx, to, face_left) ==
    IF st.old_to_new[to + 1] # None
    THEN PushEdge(st, st.old_to_new[to + 1], face_left)
    ELSE IF FindCut(st.cut_infos, new_idx, face_left) # None
    THEN PushEdge(st, FindCut(st.cut_infos, new_idx, face_left), face_left)
    ELSE st

RECURSIVE KeptEdges(_, _, _, _, _)
KeptEdges(st, cell, i, k, new_idx) ==
    IF Strict(st) /\ k < cell.vertex_counts[i + 1]
    THEN KeptEdges(KeptEdge(st, new_idx,
                            cell.edge_buffer[cell.vertex_offsets[i + 1] + k + 1],
                            cell.neighbor_buffer[cell.vertex_offsets[i + 1] + k + 1]),
                   cell, i, k + 1, new_idx)
    ELSE st

\* vertex_counts[new_idx] = new_count: the entries pushed since the offset
CloseVertex(st, idx) ==
    [st EXCEPT !.vertex_counts[idx + 1] = Len(st.edge_buffer) - st.vertex_offsets[idx + 1]]

\* Step 2 for old vertex i
BuildKept(st, cell, i) ==
    IF st.old_to_new[i + 1] # None
    THEN CloseVertex(KeptEdges([st EXCEPT !.vertex_offsets[st.old_to_new[i + 1] + 1] =
                                              Len(st.edge_buffer)],
                               cell, i, 0, st.old_to_new[i + 1]),
                     st.old_to_new[i + 1])
    ELSE st

RECURSIVE BuildKeptAll(_, _, _)
BuildKeptAll(st, cell, i) ==
    IF Strict(st) /\ i < Len(cell.vertices)
    THEN BuildKeptAll(BuildKept(st, cell, i), cell, i + 1)
    ELSE st

\* for &(f, idx, _) in face_cut_map { if f == face && idx != p_idx { .. break } }
OtherCut(face_cut_map, face, p_idx) ==
    IF \E c \in 1..Len(face_cut_map) :
          face_cut_map[c][1] = face /\ face_cut_map[c][2] # p_idx
    THEN face_cut_map[First({c \in 1..Len(face_cut_map) :
                               face_cut_map[c][1] = face /\ face_cut_map[c][2] # p_idx})][2]
    ELSE U16Max

PushIfFound(st, to, face) == IF to # U16Max THEN PushEdge(st, to, face) ELSE st

\* Step 3 for one recorded cut (p_idx, u_idx, f_left, f_right): the edges
\* of p are u (left face f_right), p_prev (left face neighbor_id, the lid)
\* and p_next (left face f_left)
BuildCut(st, info, neighbor_id) ==
    CloseVertex(
        PushIfFound(
            PushIfFound(
                PushEdge([st EXCEPT !.vertex_offsets[info[1] + 1] = Len(st.edge_buffer)],
                         info[2], info[4]),
                OtherCut(st.face_cut_map, info[4], info[1]), neighbor_id),
            OtherCut(st.face_cut_map, info[3], info[1]), info[3]),
        info[1])

RECURSIVE BuildCuts(_, _, _)
BuildCuts(st, c, neighbor_id) ==
    IF Strict(st) /\ c <= Len(st.cut_infos)
    THEN BuildCuts(BuildCut(st, st.cut_infos[c], neighbor_id), c + 1, neighbor_id)
    ELSE st

\* The buffers of a clip after `Prepare scratch`
EdgesPrepare ==
    [vertices |-> <<>>, edge_buffer |-> <<>>, neighbor_buffer |-> <<>>,
     vertex_offsets |-> <<>>, vertex_counts |-> <<>>, old_to_new |-> <<>>,
     face_cut_map |-> <<>>, cut_infos |-> <<>>, max_d2 |-> Zero]

\* The swaps and the return value (true, max_d2)
EdgesSwap(cell, dists, st) ==
    [cell |-> [cell EXCEPT !.vertices = st.vertices,
                           !.edge_buffer = st.edge_buffer,
                           !.neighbor_buffer = st.neighbor_buffer,
                           !.vertex_offsets = st.vertex_offsets,
                           !.vertex_counts = st.vertex_counts],
     scratch |-> [vertices |-> cell.vertices,
                  edge_buffer |-> cell.edge_buffer,
                  neighbor_buffer |-> cell.neighbor_buffer,
                  vertex_offsets |-> cell.vertex_offsets,
                  vertex_counts |-> cell.vertex_counts,
                  dists |-> dists,
                  old_to_new |-> st.old_to_new,
                  face_cut_map |-> st.face_cut_map,
                  cut_infos |-> st.cut_infos],
     modified |-> TRUE, radius |-> st.max_d2]

\* The clip once the distances are known
EdgesClipBy(cell, dists, neighbor_id, scratch, generator) ==
    IF AllInside(dists)
    THEN [cell |-> cell, scratch |-> [scratch EXCEPT !.dists = dists],
          modified |-> FALSE, radius |-> Zero]
    ELSE IF AllOutside(dists)
    THEN [cell |-> [cell EXCEPT !.vertices = <<>>, !.edge_buffer = <<>>,
                                !.neighbor_buffer = <<>>, !.vertex_offsets = <<>>,
                                !.vertex_counts = <<>>],
          scratch |-> [scratch EXCEPT !.dists = dists],
          modified |-> TRUE, radius |-> Zero]
    ELSE EdgesSwap(cell, dists,
                   BuildCuts(BuildKeptAll(EdgesKeepVertices(EdgesPrepare, cell, dists,
                                                            0, generator),
                                          cell, 0),
                             1, neighbor_id))

\* CellEdges::clip_with_scratch
edges_clip_with_scratch(cell, point, normal, neighbor_id, scratch, generator) ==
    EdgesClipBy(cell, ClipDists(cell.vertices, point, normal), neighbor_id, scratch,
                generator)

(***************************************************************************)
(* CellEdges::calculate_faces: the face loops are rebuilt by walking, from *)
(* every directed edge not yet visited, along the edges that have the same *)
(* face label on their left.                                               *)
(***************************************************************************)
\* for m in 0..n_count { if neighbor_buffer[n_start + m] == face_id { .. break } }:
\* the target of the first such edge of vertex `at`, or None
FindLeft(cell, at, face_id) ==
    IF \E m \in 0..(cell.vertex_counts[at + 1] - 1) :
          cell.neighbor_buffer[cell.vertex_offsets[at + 1] + m + 1] = face_id
    THEN cell.edge_buffer[cell.vertex_offsets[at + 1]
            + First({m \in 0..(cell.vertex_counts[at + 1] - 1) :
                       cell.neighbor_buffer[cell.vertex_offsets[at + 1] + m + 1] = face_id})
            + 1]
    ELSE None

\* One round of the walk's loop on (curr, next): curr is pushed and the edge
\* marked; the loop ends when no edge is found or the walk is back at u.
\* The loop state is (curr, next) alone, so a round that arrives at a state
\* it has been in before never ends: spins.
WalkRound(w, u, found) ==
    IF found = None \/ w.next = u
    THEN [w EXCEPT !.face_verts = Append(@, w.curr),
                   !.edges = Append(@, <<w.curr, w.next>>),
                   !.ended = TRUE]
    ELSE [w EXCEPT !.face_verts = Append(@, w.curr),
                   !.edges = Append(@, <<w.curr, w.next>>),
                   !.curr = w.next,
                   !.next = found,
                   !.spins = \/ <<w.next, found>> = <<w.curr, w.next>>
                             \/ \E e \in 1..Len(w.edges) : w.edges[e] = <<w.next, found>>]

RECURSIVE FaceWalk(_, _, _, _)
FaceWalk(cell, u, face_id, w) ==
    IF Strict(w) /\ ~w.ended /\ ~w.spins
    THEN FaceWalk(cell, u, face_id, WalkRound(w, u, FindLeft(cell, w.next, face_id)))
    ELSE w

\* The walk that starts on the directed edge (u, v)
WalkFrom(cell, u, v, face_id) ==
    FaceWalk(cell, u, face_id,
             [face_verts |-> <<>>, edges |-> <<>>, curr |-> u, next |-> v,
              ended |-> FALSE, spins |-> FALSE])

\* The face of a walk is pushed and its edges are marked visited.  `twice`
\* records that a walk went over an edge that was visited before.
AddFace(acc, face_id, w) ==
    [counts |-> Append(acc.counts, Len(w.face_verts)),
     indices |-> acc.indices \o w.face_verts,
     neighbors |-> Append(acc.neighbors, face_id),
     visited |-> acc.visited \cup {w.edges[e] : e \in 1..Len(w.edges)},
     spins |-> acc.spins \/ w.spins,
     twice |-> \/ acc.twice
               \/ w.spins
               \/ \E e \in 1..Len(w.edges) : w.edges[e] \in acc.visited
               \/ \E e, f \in 1..Len(w.edges) : e # f /\ w.edges[e] = w.edges[f]]

\* if visited.contains(&(u, v)) { continue }
FaceOfEdge(acc, cell, u, v, face_id) ==
    IF acc.spins \/ <<u, v>> \in acc.visited THEN acc
    ELSE AddFace(acc, face_id, WalkFrom(cell, u, v, face_id))

RECURSIVE FacesOfVertex(_, _, _, _)
FacesOfVertex(acc, cell, u, k) ==
    IF Strict(acc) /\ k < cell.vertex_counts[u + 1]
    THEN FacesOfVertex(FaceOfEdge(acc, cell, u,
                                  cell.edge_buffer[cell.vertex_offsets[u + 1] + k + 1],
                                  cell.neighbor_buffer[cell.vertex_offsets[u + 1] + k + 1]),
                       cell, u, k + 1)
    ELSE acc

RECURSIVE FacesOfVertices(_, _, _)
FacesOfVertices(acc, cell, u) ==
    IF Strict(acc) /\ u < Len(cell.vertex_counts)
    THEN FacesOfVertices(FacesOfVertex(acc, cell, u, 0), cell, u + 1)
    ELSE acc

\* (counts, indices, neighbors) of calculate_faces; spins: the call does not
\* return
calculate_faces(cell) ==
    FacesOfVertices([counts |-> <<>>, indices |-> <<>>, neighbors |-> <<>>,
                     visited |-> {}, spins |-> FALSE, twice |-> FALSE],
                    cell, 0)

\* The face lists that volume and centroid of CellEdges loop over
EdgesFaces(cell, faces) ==
    [vertices |-> cell.vertices, face_counts |-> faces.counts,
     face_indices |-> faces.indices, face_neighbors |-> faces.neighbors]

\* CellEdges::volume and CellEdges::centroid: the loops of CellFaces over
\* the lists of calculate_faces
edges_volume(cell) == volume(EdgesFaces(cell, calculate_faces(cell)))

edges_centroid(cell) == centroid(EdgesFaces(cell, calculate_faces(cell)))

(***************************************************************************)
(* SpecPair: a CellFaces (cells[1]) and a CellEdges (cells[2]) of the same *)
(* box are clipped by the same planes with the same labels, at most        *)
(* MaxPairClips times.  The scratch of the CellFaces is kept in the first  *)
(* worker of calc, that of the CellEdges in the second.  `last` records    *)
(* the call: the plane, the generator, and for both cells the cell before  *)
(* the call and the pair returned.                                         *)
(***************************************************************************)
MaxPairClips == 3

\* Half-spaces x <= 2, x >= 2, y <= 2, x + y <= 4 (through four box
\* vertices), x + y <= 6, x + y + z <= 6, x + y + z <= 2 and x + y + z <= 4
\* (through three box vertices), each with a label of its own
BisectorPlanes ==
    {Plane(P3(2, 0, 0), P3(1, 0, 0), 1), Plane(P3(2, 0, 0), P3(-1, 0, 0), 2),
     Plane(P3(0, 2, 0), P3(0, 1, 0), 3), Plane(P3(2, 2, 0), P3(1, 1, 0), 4),
     Plane(P3(3, 3, 0), P3(1, 1, 0), 5), Plane(P3(2, 2, 2), P3(1, 1, 1), 6),
     Plane(P3(2, 0, 0), P3(1, 1, 1), 7), Plane(P3(4, 0, 0), P3(1, 1, 1), 8)}

\* The planes x <= 3, y <= 3 and z <= 3 of one convex-polyhedron wall: its
\* cut hands every plane of the wall to the clipper under the one wall id
PolyhedronPlanes ==
    {Plane(P3(3, 0, 0), P3(1, 0, 0), -10), Plane(P3(0, 3, 0), P3(0, 1, 0), -10),
     Plane(P3(0, 0, 3), P3(0, 0, 1), -10)}

PairPlanes == BisectorPlanes \cup PolyhedronPlanes

InitPair ==
    /\ kind = "pair"
    /\ ties = "low"
    /\ generators = <<>>
    /\ walls = <<>>
    /\ cells = <<CellNew(0), EdgesNew(0)>>
    /\ grid = NoGrid
    /\ octree = NoOctree
    /\ pc = "idle"
    /\ calc = [CalcIdle EXCEPT !.workers[2].scratch = EdgesScratchDefault]
    /\ last = Returned("new", TRUE)
    /\ ops = 0

PairReturned(plane, generator, c, e) ==
    [op |-> "clip", plane |-> plane, generator |-> generator,
     ok |-> c.modified, radius |-> c.radius, before |-> cells[1],
     edges_ok |-> e.modified, edges_radius |-> e.radius, edges_before |-> cells[2]]

ClipPair(plane, generator, c, e) ==
    /\ cells' = <<c.cell, e.cell>>
    /\ calc' = [calc EXCEPT !.workers[1].scratch = c.scratch,
                            !.workers[2].scratch = e.scratch]
    /\ last' = PairReturned(plane, generator, c, e)
    /\ ops' = ops + 1
    /\ UNCHANGED <<kind, ties, generators, walls, grid, octree, pc>>

ClipBoth(plane, generator) ==
    /\ kind = "pair"
    /\ ops < MaxPairClips
    /\ ClipPair(plane, generator,
                clip_with_scratch(cells[1], plane.point, plane.normal, plane.id,
                                  calc.workers[1].scratch, generator),
                edges_clip_with_scratch(cells[2], plane.point, plane.normal, plane.id,
                                        calc.workers[2].scratch, generator))

NextPair == \E plane \in PairPlanes, generator \in ClipGenerators : ClipBoth(plane, generator)

SpecPair == InitPair /\ [][NextPair]_vars

(***************************************************************************)
(* SpecWalled: the calls on a tessellation that has the wall x >= 2: the   *)
(* state after new and add_wall, when there are no generators yet to       *)
(* prune.  set_generator is called with a position the wall contains and   *)
(* one it does not; set_generators also with a vector whose second         *)
(* generator gets an empty cell.                                           *)
(***************************************************************************)
WalledPoints == {PtA, PtB}

WalledGenerators == {<<PtA, PtB>>, <<PtB, PtOut>>, <<PtA, PtB, PtC, PtD>>}

InitWalled ==
    /\ kind \in {"grid", "moctree"}
    /\ ties = "low"
    /\ generators = <<>>
    /\ walls = <<WallX>>
    /\ cells = <<>>
    /\ \/ kind = "grid" /\ grid = GridNew(<<1, 1, 1>>, ties) /\ octree = NoOctree
       \/ kind = "moctree" /\ grid = NoGrid /\ octree = OctreeNew(2)
    /\ pc = "idle"
    /\ calc = CalcIdle
    /\ last = Returned("add_wall", TRUE)
    /\ ops = 0

NextWalled ==
    \/ \E gs \in WalledGenerators : SetGenerators(gs)
    \/ \E index \in 0..MaxIndex, p \in WalledPoints : SetGenerator(index, p)
    \/ \E wall \in WallInputs : AddWall(wall)
    \/ ClearWalls
    \/ Relax
    \/ CalcStart
    \/ CalcTakeNext
    \/ CalcVisit(1)
    \/ CalcFinish(1)
    \/ CalcEnd

SpecWalled == InitWalled /\ [][NextWalled]_vars

(***************************************************************************)
(* SpecRandom: random_generators(count) in steps, one round of its         *)
(* sampling loop at a time.  While the call runs, pc = "random" and calc   *)
(* holds its locals count, attempts and points.  A sample is a position of *)
(* the box; with the wall x >= 2 installed, (1,1,1) is a sample the wall   *)
(* rejects.                                                                *)
(***************************************************************************)
\* let max_attempts = count * 1000
AttemptsPerPoint == 1000

InitRandom ==
    /\ kind \in {"grid", "moctree"}
    /\ ties = "low"
    /\ generators = <<>>
    /\ walls \in {<<>>, <<WallX>>}
    /\ cells = <<>>
    /\ \/ kind = "grid" /\ grid = GridNew(<<1, 1, 1>>, ties) /\ octree = NoOctree
       \/ kind = "moctree" /\ grid = NoGrid /\ octree = OctreeNew(2)
    /\ pc = "idle"
    /\ calc = CalcIdle
    /\ last = Returned("new", TRUE)
    /\ ops = 0

\* The locals when the loop starts
RandomLocals(count) == [count |-> count, attempts |-> 0, points |-> <<>>]

RandomStart(count) ==
    /\ Callable
    /\ pc' = "random"
    /\ calc' = RandomLocals(count)
    /\ UNCHANGED <<kind, ties, generators, walls, cells, grid, octree, last, ops>>

\* Fault: the loop has no limit on the attempts
RandomGoesOnForever(c) == Len(c.points) < c.count

\* while found < count && attempts < max_attempts
RandomGoesOn(c) ==
    Len(c.points) < c.count /\ c.attempts < c.count * AttemptsPerPoint

\* One round of the loop on the sample p
RandomRound(c, ws, p) ==
    [c EXCEPT !.attempts = @ + 1,
              !.points = IF InsideWalls(ws, p) THEN Append(@, p) ELSE @]

RandomAttempt(p) ==
    /\ pc = "random"
    /\ RandomGoesOn(calc)
    /\ calc' = RandomRound(calc, walls, p)
    /\ UNCHANGED <<kind, ties, generators, walls, cells, grid, octree, pc, last, ops>>

\* self.set_generators(&points)
RandomEnd ==
    /\ pc = "random"
    /\ ~RandomGoesOn(calc)
    /\ Write(set_generators(kind, walls, grid, octree, calc.points),
             "random_generators", TRUE)
    /\ calc' = CalcIdle
    /\ UNCHANGED <<kind, ties, walls, cells>>

NextRandom ==
    \/ \E count \in 1..MaxCount : RandomStart(count)
    \/ \E p \in InBox : RandomAttempt(p)
    \/ RandomEnd

SpecRandom == InitRandom /\ [][NextRandom]_vars

(***************************************************************************)
(* SpecWallId: walls are constructed and installed.  The repository has    *)
(* two constructors: Wall::new of src/src/wall.rs, which panics on         *)
(* id > WALL_ID_START, and Wall::new of src/src/wall/mod.rs, which panics  *)
(* on id > WALL_ID_MAX.  A panic leaves the tessellation as it is and ends *)
(* the run: pc = "crashed".                                                *)
(***************************************************************************)
WALL_ID_START == -10

WALL_ID_MAX == -1000

WallLimits == {WALL_ID_START, WALL_ID_MAX}

WallIds == {-1001, -1000, -999, -11, -10, -9}

\* if id > LIMIT { panic!(..) }
WallPanics(limit, id) == id > limit

\* The wall x >= 2 under the given id
WallNew(id) == [WallX EXCEPT !.id = id]

InstallWall(limit, id) ==
    IF WallPanics(limit, id)
    THEN /\ Callable
         /\ pc' = "crashed"
         /\ last' = Returned("wall_new", FALSE)
         /\ UNCHANGED <<kind, ties, generators, walls, cells, grid, octree, calc, ops>>
    ELSE AddWall(WallNew(id))

NextWallId ==
    \/ \E limit \in WallLimits, id \in WallIds : InstallWall(limit, id)
    \/ \E gs \in GeneratorInputs : SetGenerators(gs)

SpecWallId == Init /\ [][NextWallId]_vars

(***************************************************************************)
(* SpecNearest: one NearestIterator over an octree, call by call.  calc    *)
(* holds the iterator (query point and queue) and the items it has yielded. *)
(***************************************************************************)
NearestGenerators ==
    {<<PtA, PtB>>, <<PtB, PtOut>>, <<PtA, PtA, PtB>>, <<PtA, PtB, PtC, PtD>>}

NearestQueries == {PtA, PtD, PtOut, P3(2, 2, 2), P3(0, 4, 4)}

InitNearest ==
    /\ kind = "nearest"
    /\ ties \in {"low", "high"}
    /\ generators \in NearestGenerators
    /\ walls = <<>>
    /\ cells = <<>>
    /\ grid = NoGrid
    /\ octree \in {OctreeSetGenerators(OctreeNew(capacity), generators) :
                      capacity \in Capacities}
    /\ ~octree.diverged
    /\ pc = "idle"
    /\ calc = CalcIdle
    /\ last = Returned("set_generators", TRUE)
    /\ ops = 0

\* octree.nearest_iter(x, y, z)
NearestIter(p) ==
    /\ kind = "nearest"
    /\ pc = "idle"
    /\ pc' = "iter"
    /\ calc' = [query |-> p, queue |-> nearest_iter(octree, p), yielded |-> <<>>]
    /\ UNCHANGED <<kind, ties, generators, walls, cells, grid, octree, last, ops>>

\* next() on the queue q, advanced to its first point item: Some(index) for
\* the item popped, or None when the queue has run empty
NearestNextAt(q) ==
    \/ /\ \E item \in Poppable(q, ties) :
             calc' = [calc EXCEPT !.queue = q \ {item}, !.yielded = Append(@, item)]
       /\ pc' = "iter"
    \/ /\ q = {}
       /\ calc' = [calc EXCEPT !.queue = q]
       /\ pc' = "done"

NearestNext ==
    /\ pc = "iter"
    /\ NearestNextAt(Advance(octree, calc.queue, calc.query))
    /\ UNCHANGED <<kind, ties, generators, walls, cells, grid, octree, last, ops>>

NextNearest ==
    \/ \E p \in NearestQueries : NearestIter(p)
    \/ NearestNext

SpecNearest == InitNearest /\ [][NextNearest]_vars

(***************************************************************************)
(* SpecEmptied: tessellations with the wall x >= 5, which has no point of  *)
(* the box: the wall cut clears the cell of every generator before the     *)
(* neighbour loop runs.  With the wall x >= 2 alone no cell is cleared.    *)
(***************************************************************************)
\* The wall x >= 5
WallFar == [id |-> -1001, point |-> P3(5, 0, 0), normal |-> P3(1, 0, 0)]

EmptiedWalls == {<<WallX>>, <<WallFar>>, <<WallFar, WallX>>}

EmptiedGenerators == {<<PtOut, PtOut>>, <<PtB, PtOut>>, <<PtOut, P3(5, 3, 1)>>}

InitEmptied ==
    /\ kind \in {"grid", "moctree"}
    /\ ties = "low"
    /\ generators = <<>>
    /\ walls \in EmptiedWalls
    /\ cells = <<>>
    /\ \/ kind = "grid" /\ grid \in {GridNew(res, ties) : res \in GridShapes} /\ octree = NoOctree
       \/ kind = "moctree" /\ grid = NoGrid /\ octree = OctreeNew(2)
    /\ pc = "idle"
    /\ calc = CalcIdle
    /\ last = Returned("add_wall", TRUE)
    /\ ops = 0

NextEmptied ==
    \/ \E gs \in EmptiedGenerators : SetGenerators(gs)
    \/ CalcStart
    \/ CalcTakeNext
    \/ CalcVisit(1)
    \/ CalcFinish(1)
    \/ CalcEnd

SpecEmptied == InitEmptied /\ [][NextEmptied]_vars

(***************************************************************************)
(* Cell2D (src/src/cell/d2.rs): a polygon as a vertex list; edge i runs    *)
(* from vertex i to vertex i + 1 and edge_neighbors[i] is its label.       *)
(***************************************************************************)
\* Cell2D::new(id, bounds): the rectangle of the first two axes of the box
Cell2DNew(id) ==
    [id |-> id,
     vertices |-> << <<bounds.min[1], bounds.min[2]>>, <<bounds.max[1], bounds.min[2]>>,
                     <<bounds.max[1], bounds.max[2]>>, <<bounds.min[1], bounds.max[2]>> >>,
     edge_neighbors |-> <<box_side(1, 0), box_side(0, 1), box_side(1, 1), box_side(0, 0)>>]

\* Cell2DScratch::default()
Scratch2DDefault == [vertices |-> <<>>, neighbors |-> <<>>, dists |-> <<>>]

\* d = (vx - px) * nx + (vy - py) * ny
Dist2D(v, point, normal) ==
    RAdd(RMul(RSub(v[1], point[1]), normal[1]), RMul(RSub(v[2], point[2]), normal[2]))

\* let t = d_i / (d_i - d_j)
CrossT(d_i, d_j) == RDiv(d_i, RSub(d_i, d_j))

\* ix = xi + t * (xj - xi), iy = yi + t * (yj - yi)
Cross2D(a, b, d_i, d_j) ==
    <<RAdd(a[1], RMul(CrossT(d_i, d_j), RSub(b[1], a[1]))),
      RAdd(a[2], RMul(CrossT(d_i, d_j), RSub(b[2], a[2])))>>

\* if d2 > max_d2 { max_d2 = d2 }, skipped when no generator is passed
UpdMax2D(max_d2, p, generator) ==
    IF generator = NoGenerator THEN max_d2
    ELSE RMax(max_d2, RAdd(RMul(RSub(p[1], generator[1]), RSub(p[1], generator[1])),
                           RMul(RSub(p[2], generator[2]), RSub(p[2], generator[2]))))

\* A vertex is pushed to the scratch
Push2D(acc, p, generator) ==
    [acc EXCEPT !.vertices = Append(@, p), !.max_d2 = UpdMax2D(@, p, generator)]

\* A label is pushed to the scratch
PushLabel(acc, label) == [acc EXCEPT !.neighbors = Append(@, label)]

\* V_i is inside: it is kept; when V_j is outside the edge is cut at I
\* and the clipping edge starts at I
Leave2D(acc, a, b, d_i, d_j, neighbor, neighbor_id, generator) ==
    IF ~GtEps(d_j)
    THEN PushLabel(Push2D(acc, a, generator), neighbor)
    ELSE PushLabel(Push2D(PushLabel(Push2D(acc, a, generator), neighbor),
                          Cross2D(a, b, d_i, d_j), generator),
                   neighbor_id)

\* V_i is outside: when V_j is inside the edge from I to V_j is kept
Enter2D(acc, a, b, d_i, d_j, neighbor, generator) ==
    IF ~GtEps(d_j)
    THEN PushLabel(Push2D(acc, Cross2D(a, b, d_i, d_j), generator), neighbor)
    ELSE acc

\* The body of the loop over the vertices, for vertex i and j = (i + 1) % n
\* (1-based here)
Edge2D(acc, cell, dists, i, j, neighbor_id, generator) ==
    IF ~GtEps(dists[i])
    THEN Leave2D(acc, cell.vertices[i], cell.vertices[j], dists[i], dists[j],
                 cell.edge_neighbors[i], neighbor_id, generator)
    ELSE Enter2D(acc, cell.vertices[i], cell.vertices[j], dists[i], dists[j],
                 cell.edge_neighbors[i], generator)

RECURSIVE Edges2D(_, _, _, _, _, _)
Edges2D(acc, cell, dists, i, neighbor_id, generator) ==
    IF Strict(acc) /\ i <= Len(cell.vertices)
    THEN Edges2D(Edge2D(acc, cell, dists, i, (i % Len(cell.vertices)) + 1,
                        neighbor_id, generator),
                 cell, dists, i + 1, neighbor_id, generator)
    ELSE acc

\* The swaps and the return value
Swap2D(cell, dists, acc) ==
    [cell |-> [cell EXCEPT !.vertices = acc.vertices, !.edge_neighbors = acc.neighbors],
     scratch |-> [vertices |-> cell.vertices, neighbors |-> cell.edge_neighbors,
                  dists |-> dists],
     modified |-> TRUE, radius |-> acc.max_d2]

\* Cell2D::clip_with_scratch after the distances are known
Clip2DBy(cell, dists, neighbor_id, scratch, generator) ==
    IF \A k \in 1..Len(dists) : ~GtEps(dists[k])
    THEN [cell |-> cell, scratch |-> [scratch EXCEPT !.dists = dists],
          modified |-> FALSE, radius |-> Zero]
    ELSE IF \A k \in 1..Len(dists) : ~LtNegEps(dists[k])
    THEN [cell |-> [cell EXCEPT !.vertices = <<>>, !.edge_neighbors = <<>>],
          scratch |-> [scratch EXCEPT !.dists = dists],
          modified |-> TRUE, radius |-> Zero]
    ELSE Swap2D(cell, dists,
                Edges2D([vertices |-> <<>>, neighbors |-> <<>>, max_d2 |-> Zero],
                        cell, dists, 1, neighbor_id, generator))

\* Cell2D::clip_with_scratch; [cell, scratch, modified, radius]
d2_clip_with_scratch(cell, point, normal, neighbor_id, scratch, generator) ==
    IF Len(cell.vertices) < 3
    THEN [cell |-> cell, scratch |-> scratch, modified |-> FALSE, radius |-> Zero]
    ELSE Clip2DBy(cell,
                  [k \in 1..Len(cell.vertices) |-> Dist2D(cell.vertices[k], point, normal)],
                  neighbor_id, scratch, generator)

(***************************************************************************)
(* SpecFlat: one CellFaces and one Cell2D, clipped by the same planes.     *)
(* The normals of FlatPlanes have no z component: the 2D clipper gets the  *)
(* first two coordinates of point, normal and generator.                   *)
(***************************************************************************)
Flat(p) == IF p = NoGenerator THEN NoGenerator ELSE <<p[1], p[2]>>

InitFlat ==
    /\ kind = "flat"
    /\ ties = "low"
    /\ generators = <<>>
    /\ walls = <<>>
    /\ cells = <<CellNew(0), Cell2DNew(0)>>
    /\ grid = NoGrid
    /\ octree = NoOctree
    /\ pc = "idle"
    /\ calc = [CalcIdle EXCEPT !.workers[2].scratch = Scratch2DDefault]
    /\ last = Returned("new", TRUE)
    /\ ops = 0

FlatReturned(plane, generator, c, f) ==
    [op |-> "clip", plane |-> plane, generator |-> generator,
     ok |-> c.modified, radius |-> c.radius, before |-> cells[1],
     flat_ok |-> f.modified, flat_radius |-> f.radius, flat_before |-> cells[2]]

ClipFlat(plane, generator, c, f) ==
    /\ cells' = <<c.cell, f.cell>>
    /\ calc' = [calc EXCEPT !.workers[1].scratch = c.scratch,
                            !.workers[2].scratch = f.scratch]
    /\ last' = FlatReturned(plane, generator, c, f)
    /\ ops' = ops + 1
    /\ UNCHANGED <<kind, ties, generators, walls, grid, octree, pc>>

ClipFlatCall(plane, generator) ==
    /\ kind = "flat"
    /\ ops < MaxClips
    /\ ClipFlat(plane, generator,
                clip_with_scratch(cells[1], plane.point, plane.normal, plane.id,
                                  calc.workers[1].scratch, generator),
                d2_clip_with_scratch(cells[2], Flat(plane.point), Flat(plane.normal),
                                     plane.id, calc.workers[2].scratch, Flat(generator)))

\* The planes of SpecClip and a plane of normal (Tiny, Tiny, 0) through
\* (3, 0, 0): the corners of the box are at -1.5e-9, 0.5e-9, 0.5e-9 and
\* 2.5e-9 from it
FlatPlanes == ClipPlanes \cup {Plane(P3(3, 0, 0), <<Tiny, Tiny, Zero>>, 37)}

NextFlat == \E plane \in FlatPlanes, generator \in ClipGenerators : ClipFlatCall(plane, generator)

SpecFlat == InitFlat /\ [][NextFlat]_vars

(***************************************************************************)
(* Properties                                                              *)
(***************************************************************************)
Busy(w) == calc.workers[w].busy

Task(w) == calc.workers[w].task

Calculated == pc = "idle" /\ last.op = "calculate"

\* The labels of the faces of a cell
Labels(cell) == {cell.face_neighbors[f] : f \in 1..Len(cell.face_neighbors)}

\* C1: when the neighbour search of generator i has ended, every generator
\* j # i whose squared distance to g_i is at most 4 r^2, for the r^2 the
\* search ended with, has been passed to the visitor.
C1_SearchYieldsAllWithin4r2 ==
    \A w \in 1..NThreads :
        (pc = "calculate" /\ Busy(w) /\ Task(w).done) =>
            \A j \in 0..(Count - 1) :
                (j # Task(w).i
                 /\ RLe(DistSq(generators[j + 1], Task(w).g), Four(Task(w).r2)))
                => j \in Task(w).visited

\* C2: after calculate() there are as many cells as generators, and the
\* cell at position i is the cell of generator i.
C2_CellsInIndexOrder ==
    Calculated => /\ Len(cells) = Count
                  /\ \A i \in 1..Count : cells[i].id = i - 1

\* Two workers completed the indices out of order, and the empty cell of
\* the second generator has its slot
C2_Witness ==
    /\ Calculated
    /\ last.order = <<1, 0>>
    /\ cells[1].vertices # <<>>
    /\ cells[2].vertices = <<>>

\* C3: every generator is contained in every installed wall.
C3_GeneratorsInsideWalls ==
    pc # "crashed" => \A i \in 1..Count : InsideWalls(walls, generators[i])

\* The positions at which index i occurs in bin b (0-based b)
Occurrences(b, i) == {k \in 1..Len(grid.bins[b + 1]) : grid.bins[b + 1][k] = i}

\* C4: on a grid, every index i < N is stored once, in bin
\* generator_bin_ids[i], which is the bin of the position of generator i;
\* no bin holds an index >= N.
C4_GridFollowsGenerators ==
    kind = "grid" =>
        /\ Len(grid.generator_bin_ids) = Count
        /\ \A i \in 0..(Count - 1) :
              /\ grid.generator_bin_ids[i + 1] = get_bin_index(grid.res, generators[i + 1])
              /\ \A b \in 0..(Len(grid.bins) - 1) :
                    Cardinality(Occurrences(b, i))
                        = (IF b = grid.generator_bin_ids[i + 1] THEN 1 ELSE 0)
        /\ \A b \in 1..Len(grid.bins) : \A k \in 1..Len(grid.bins[b]) :
              grid.bins[b][k] \in 0..(Count - 1)

\* set_generator has moved index 0 to the bin that held index 1
C4_Witness ==
    /\ kind = "grid"
    /\ last = Returned("set_generator", TRUE)
    /\ grid.bins = << <<>>, <<1, 0>> >>

\* C5: the octree holds the pair (k, position of generator k) for every
\* k < N, and nothing else.
C5_OctreeHoldsGenerators ==
    (kind = "moctree" /\ pc # "crashed") =>
        Stored(octree.root) = {<<k - 1, generators[k]>> : k \in 1..Count}

\* The cell of generator i computed alone, on a fresh scratch
RefIter(s, q) ==
    IF q = {}
    THEN [scratch |-> s.scratch, task |-> [s.task EXCEPT !.done = TRUE]]
    ELSE OctreeStep(generators, [s.task EXCEPT !.queue = q], s.scratch,
                    CHOOSE item \in Poppable(q, ties) : TRUE)

RefStep(s) ==
    IF kind = "grid" THEN GridStep(grid, generators, s.task, s.scratch)
    ELSE RefIter(s, Advance(octree, s.task.queue, s.task.g))

RECURSIVE RefRun(_)
RefRun(s) == IF s.task.done THEN s.task.cell ELSE RefRun(RefStep(s))

RefCell(i) == RefRun(StartTask(kind, generators, walls, octree, i, ScratchDefault))

\* C6: whatever the distribution of the indices over the workers and
\* whatever a reused scratch held, calculate() stores the cells that are
\* computed one at a time, each on a fresh scratch.
C6_ScheduleIndependent ==
    Calculated => cells = [i \in 1..Count |-> RefCell(i - 1)]

\* A closure started on a used scratch, the indices completed out of order
\* and a cell was clipped by a neighbour
C6_Witness ==
    /\ Calculated
    /\ last.reused
    /\ last.order # [k \in 1..Count |-> k - 1]
    /\ \E i \in 1..Count : \E j \in Labels(cells[i]) : j >= 0

\* The signed distances of the vertices the last clip found
LastDists == ClipDists(last.before.vertices, last.plane.point, last.plane.normal)

\* C7: a clip with every d <= 1e-9 leaves the cell as it is and reports no
\* modification; otherwise a clip with every d >= -1e-9 empties the cell and
\* reports a modification.
C7_ClipTrivialCases ==
    last.op = "clip" =>
        /\ (\A k \in 1..Len(LastDists) : ~GtEps(LastDists[k]))
              => (cells[1] = last.before /\ ~last.ok)
        /\ ((\E k \in 1..Len(LastDists) : GtEps(LastDists[k]))
            /\ (\A k \in 1..Len(LastDists) : ~LtNegEps(LastDists[k])))
              => (cells[1].vertices = <<>> /\ cells[1].face_counts = <<>>
                  /\ cells[1].face_indices = <<>> /\ cells[1].face_neighbors = <<>>
                  /\ last.ok)

\* A cell was emptied although some of its vertices lay on the inner side
\* of the plane, less than 1e-9 away
C7_Witness ==
    /\ last.op = "clip"
    /\ last.before.vertices # <<>>
    /\ cells[1].vertices = <<>>
    /\ last.ok
    /\ \E k \in 1..Len(LastDists) : RSign(LastDists[k]) < 0

\* C8: throughout the neighbour loop r^2 is the greatest squared distance
\* from the generator to a vertex of the cell.
C8_RadiusIsMaxRadius ==
    \A w \in 1..NThreads :
        (pc = "calculate" /\ Busy(w)) =>
            Task(w).r2 = max_radius_sq(Task(w).cell, Task(w).g)

\* A bisector has cut the cell and the radius has changed
C8_Witness ==
    \E w \in 1..NThreads :
        /\ pc = "calculate" /\ Busy(w)
        /\ \E j \in Labels(Task(w).cell) : j >= 0
        /\ Task(w).r2 # max_radius_sq(CellNew(Task(w).i), Task(w).g)

\* C9: within the computation of one cell r^2 never increases.
C9_RadiusNeverIncreases ==
    [][\A w \in 1..NThreads :
          (calc.workers[w].busy /\ calc'.workers[w].busy)
          => RLe(calc'.workers[w].task.r2, calc.workers[w].task.r2)]_vars

\* Two candidates have been visited and r^2 is below the radius of the box
C9_Witness ==
    \E w \in 1..NThreads :
        /\ pc = "calculate" /\ Busy(w)
        /\ Cardinality(Task(w).visited) >= 2
        /\ walls = <<>>
        /\ RLt(Task(w).r2, max_radius_sq(CellNew(Task(w).i), Task(w).g))

\* C10: without walls, after calculate(), a cell i with a face labelled
\* j >= 0 has a cell j with a face labelled i.
C10_FaceReciprocity ==
    (Calculated /\ walls = <<>>) =>
        \A i \in 1..Len(cells) : \A j \in Labels(cells[i]) :
            j >= 0 => (i - 1) \in Labels(cells[j + 1])

\* The labels in a sequence of face labels
LabelSet(neighbors) == {neighbors[f] : f \in 1..Len(neighbors)}

\* The faces `faces` rebuilt from CellEdges e give the volume, the centroid
\* and the labels of CellFaces c
SameGeometry(c, e, faces) ==
    /\ ~faces.spins
    /\ volume(c) = volume(EdgesFaces(e, faces))
    /\ centroid(c) = centroid(EdgesFaces(e, faces))
    /\ Labels(c) = LabelSet(faces.neighbors)

\* C11: a CellFaces and a CellEdges of the same box, clipped by the same
\* planes with the same labels, have the same volume, the same centroid and
\* the same set of face labels.
C11_VariantsAgree ==
    kind = "pair" => SameGeometry(cells[1], cells[2], calculate_faces(cells[2]))

\* Offsets of the faces of a CellFaces in face_indices
RECURSIVE SumTo(_, _)
SumTo(counts, f) == IF f = 0 THEN 0 ELSE counts[f] + SumTo(counts, f - 1)

\* The invariants of the faces representation
FacesWellFormed(c) ==
    /\ \A k \in 1..Len(c.face_indices) :
          c.face_indices[k] >= 0 /\ c.face_indices[k] < Len(c.vertices)
    /\ SumTo(c.face_counts, Len(c.face_counts)) = Len(c.face_indices)
    /\ Len(c.face_neighbors) = Len(c.face_counts)
    /\ \A f \in 1..Len(c.face_counts) : c.face_counts[f] >= 3

\* C12: after any sequence of clips of a CellFaces every face index is below
\* the number of vertices, the face counts add up to the length of
\* face_indices, there is one label per face, and every face has at least
\* three vertices.
C12_FacesWellFormed == kind = "pair" => FacesWellFormed(cells[1])

\* Three clips have acted, the last one cut the cell, a face has been
\* dropped, and the cell has the faces of two bisectors and of the wall
C12_Witness ==
    /\ kind = "pair" /\ ops >= 3 /\ last.ok
    /\ Len(cells[1].face_counts) >= 6
    /\ BOX_ID_RIGHT \notin Labels(cells[1])
    /\ -10 \in Labels(cells[1])
    /\ Cardinality({j \in Labels(cells[1]) : j > 0}) >= 2

\* Edge k of vertex u of a CellEdges: its target, the face on its left and
\* the face on its right
EdgeTo(e, u, k) == e.edge_buffer[e.vertex_offsets[u + 1] + k + 1]

EdgeLeft(e, u, k) == e.neighbor_buffer[e.vertex_offsets[u + 1] + k + 1]

EdgeRight(e, u, k) ==
    e.neighbor_buffer[e.vertex_offsets[u + 1]
                      + ((k + e.vertex_counts[u + 1] - 1) % e.vertex_counts[u + 1]) + 1]

\* The edges of vertex v that go to u
EdgesBack(e, v, u) == {m \in 0..(e.vertex_counts[v + 1] - 1) : EdgeTo(e, v, m) = u}

\* C13: after any sequence of clips of a CellEdges every directed edge
\* (u, v) has exactly one reverse edge (v, u), and the face on the left of
\* (u, v) is the face on the right of (v, u).
C13_EdgesReciprocal ==
    kind = "pair" =>
        \A u \in 0..(Len(cells[2].vertex_counts) - 1) :
            \A k \in 0..(cells[2].vertex_counts[u + 1] - 1) :
                /\ Cardinality(EdgesBack(cells[2], EdgeTo(cells[2], u, k), u)) = 1
                /\ \A m \in EdgesBack(cells[2], EdgeTo(cells[2], u, k), u) :
                      EdgeLeft(cells[2], u, k) = EdgeRight(cells[2], EdgeTo(cells[2], u, k), m)

\* The walks of calculate_faces end and go over no directed edge twice
WalksOnce(faces) == ~faces.spins /\ ~faces.twice

\* C14: calculate_faces of a CellEdges returns, and its walks go over every
\* directed edge at most once.
C14_FaceWalkTerminates == kind = "pair" => WalksOnce(calculate_faces(cells[2]))

\* C15: a point outside the domain box that is passed to set_generators or
\* set_generator is rejected: no generator of the vector lies outside the box.
C15_OutsideBoxRejected ==
    \A i \in 1..Count : BoxContains(bounds, generators[i])

\* The call set_generator(index, p) leaves the generator vector and the
\* spatial index as they are
Rejected == generators' = generators /\ grid' = grid /\ octree' = octree

\* The call set_generator(index, p) changes generator `index` alone
MovedAlone(index, p) ==
    /\ Len(generators') = Count
    /\ \A j \in 1..Count : generators'[j] = (IF j = index + 1 THEN p ELSE generators[j])

\* C16: set_generator(i, p) with p outside a wall changes neither the
\* generators nor the spatial index; with p inside every wall it changes the
\* position of generator i alone.
C16_SetGeneratorFrame ==
    [][\A index \in 0..MaxIndex, p \in PointInputs \cup WalledPoints :
          SetGenerator(index, p) =>
              /\ ~InsideWalls(walls, p) => Rejected
              /\ (InsideWalls(walls, p) /\ index < Count) => MovedAlone(index, p)]_vars

\* The wall has rejected a call: with two generators every index passed is
\* in range, so the call returned because the wall does not contain p
C16_Witness ==
    /\ last.op = "set_generator" /\ ~last.ok
    /\ walls # <<>> /\ Count >= 2

\* C17: add_wall(w) removes exactly the generators that w does not contain;
\* the survivors keep their order and fill the indices 0..M-1.
C17_AddWallPrunes ==
    [][(last'.op = "add_wall" /\ ops' = ops + 1) =>
          generators' = FilterByWalls(<<walls'[Len(walls')]>>, generators)]_vars

\* The cell calculate() yields for the only generator of a tessellation: the
\* box cut by the walls, as the neighbour loop meets no other generator
LoneCell ==
    StartTask(kind, generators, walls, octree, 0, ScratchDefault).task.cell

\* C18: relax() moves generator i to the centroid of the cell that the
\* current generators and walls determine, whatever the stored cells are;
\* stated for a tessellation with one generator.
C18_RelaxRecalculates ==
    [][(last'.op = "relax" /\ ops' = ops + 1 /\ Count = 1) =>
          generators' = FilterByWalls(walls, Relaxed(<<LoneCell>>, generators))]_vars

\* The vector relax hands to set_generators, by the claim: the old position
\* for an empty cell, the centroid of the cell otherwise
Centroids ==
    [i \in 1..Count |->
        IF Len(cells[i].vertices) = 0 THEN generators[i] ELSE centroid(cells[i])]

\* C19: relax() with one stored cell per generator hands set_generators the
\* old position of every generator whose cell is empty and the centroid of
\* the cell of every other generator.
C19_RelaxKeepsEmpty ==
    [][(last'.op = "relax" /\ ops' = ops + 1 /\ last'.ok) =>
          generators' = FilterByWalls(walls, Centroids)]_vars

\* relax has acted on an empty and a non-empty cell: one generator is where
\* it was, outside the box, and another is at the centroid of its cell
C19_Witness ==
    /\ last.op = "relax" /\ last.ok /\ Len(cells) = Count
    /\ \E i \in 1..Count : cells[i].vertices = <<>> /\ generators[i] = PtOut
    /\ \E j \in 1..Count :
          /\ cells[j].vertices # <<>>
          /\ generators[j] = centroid(cells[j])
          /\ generators[j] \notin {PtA, PtB, PtC, PtD}

\* C20: the stored cells change in no call but calculate(): a step that
\* changes `cells` is the end of a calculate().
C20_CellsChangeInCalculate ==
    [][cells' # cells => (pc = "calculate" /\ pc' = "idle" /\ last'.op = "calculate")]_vars

\* Cells of an earlier calculate() are still stored after a call that has
\* changed the number of generators
C20_Witness ==
    /\ pc = "idle" /\ last.op # "calculate"
    /\ cells # <<>> /\ Len(cells) # Count

\* C21: random_generators(N) makes at most 1000 N sampling attempts, and the
\* call returns with at most N generators, each inside the domain box and
\* inside every wall.
C21_RandomBounded ==
    [][/\ pc' = "random" =>
             /\ calc'.attempts <= calc'.count * 1000
             /\ Len(calc'.points) <= calc'.count
       /\ (pc = "random" /\ pc' # "random") =>
             /\ Len(generators') <= calc.count
             /\ \A i \in 1..Len(generators') :
                   BoxContains(bounds, generators'[i]) /\ InsideWalls(walls, generators'[i])]_vars

\* The budget has run out: 1000 N attempts were made and fewer than N
\* samples were kept
C21_Witness ==
    /\ pc = "random"
    /\ calc.attempts = calc.count * 1000
    /\ Len(calc.points) < calc.count

\* C22: constructing a wall with an id above -1000 panics, every id of at
\* most -1000 is accepted, and no installed wall has an id above -1000.
C22_WallIdAtMostMax ==
    [][\A limit \in WallLimits, id \in WallIds :
          InstallWall(limit, id) =>
              /\ id > -1000 => (pc' = "crashed" /\ walls' = walls)
              /\ id <= -1000 => (pc' # "crashed" /\ walls' = Append(walls, WallNew(id)))
              /\ \A k \in 1..Len(walls') : walls'[k].id <= -1000]_vars

\* Face f (1-based) of cell c lies in the box side (axis, is_max)
FaceOnSide(c, f, axis, is_max) ==
    \A k \in 1..c.face_counts[f] :
        c.vertices[c.face_indices[SumTo(c.face_counts, f - 1) + k] + 1][axis + 1]
            = (IF is_max = 1 THEN bounds.max ELSE bounds.min)[axis + 1]

\* The cell has six faces and the face in each side of the box has the label
\* box_side gives that side
SeedLabelled(c) ==
    /\ Len(c.face_counts) = 2 * 3
    /\ \A axis \in 0..2, is_max \in 0..1 :
          \E f \in 1..Len(c.face_counts) :
              /\ FaceOnSide(c, f, axis, is_max)
              /\ c.face_neighbors[f] = box_side(axis, is_max)

\* C23: the seed cell built from the box has 2 * D faces and its face in the
\* side (axis, is_max) of the box carries the label -1 - (2 * axis + is_max):
\* x-min -1, x-max -2, y-min -3, y-max -4, z-min -5, z-max -6.
C23_SeedLabels == (kind = "pair" /\ ops = 0) => SeedLabelled(cells[1])

\* C24: after calculate(), of two generators with identical coordinates the
\* one of the later index has an empty cell.
C24_CoincidentGivesEmpty ==
    (Calculated /\ Len(cells) = Count) =>
        \A i \in 1..Count : \A j \in (i + 1)..Count :
            generators[i] = generators[j] => cells[j].vertices = <<>>

\* C25: the items the octree's nearest iterator yields are stored points in
\* the order of non-decreasing squared distance from the query point.
C25_NearestAscending ==
    (kind = "nearest" /\ pc \in {"iter", "done"}) =>
        /\ \A k \in 1..Len(calc.yielded) :
              /\ calc.yielded[k].point.p = generators[calc.yielded[k].point.index + 1]
              /\ calc.yielded[k].dist_sq = DistSq(calc.yielded[k].point.p, calc.query)
        /\ \A k \in 1..(Len(calc.yielded) - 1) :
              RLe(calc.yielded[k].dist_sq, calc.yielded[k + 1].dist_sq)

\* A subdivided octree has yielded all of its four points, at three
\* different distances
C25_Witness ==
    /\ kind = "nearest" /\ pc = "done"
    /\ octree.root.children # <<>>
    /\ Len(calc.yielded) = 4
    /\ Cardinality({calc.yielded[k].dist_sq : k \in 1..4}) = 3

\* The sum of the volumes of the first n cells
RECURSIVE VolumeSum(_, _)
VolumeSum(cs, n) == IF n = 0 THEN Zero ELSE RAdd(volume(cs[n]), VolumeSum(cs, n - 1))

\* The volume of the domain box
BoxVolume ==
    RMul(RSub(bounds.max[1], bounds.min[1]),
         RMul(RSub(bounds.max[2], bounds.min[2]), RSub(bounds.max[3], bounds.min[3])))

\* C26: with no walls installed and at least one generator, after
\* calculate() the volumes of all cells add up to the volume of the box.
C26_VolumesFillBox ==
    (Calculated /\ walls = <<>> /\ Count >= 1 /\ Len(cells) = Count) =>
        RSign(RSub(VolumeSum(cells, Len(cells)), BoxVolume)) = 0

\* The seed cell of generator i (0-based) after the cuts of the walls ws
AfterWalls(ws, i) ==
    WallCuts([cell |-> CellNew(i), scratch |-> ScratchDefault,
              modified |-> FALSE, radius |-> Zero], ws, 1).cell

\* C27: a cell the wall cuts have left empty is output empty: no step of the
\* neighbour loop changes an empty cell, and calculate() stores an empty cell
\* for every generator whose seed the wall cuts clear.
C27_EmptyStaysEmpty ==
    [][/\ \A w \in 1..NThreads :
             (calc.workers[w].busy /\ calc'.workers[w].busy
              /\ calc.workers[w].task.cell.vertices = <<>>)
             => calc'.workers[w].task.cell = calc.workers[w].task.cell
       /\ (pc = "calculate" /\ pc' = "idle") =>
             \A i \in 1..Len(cells') :
                 AfterWalls(walls, i - 1).vertices = <<>> =>
                     /\ cells'[i].vertices = <<>>
                     /\ cells'[i].face_counts = <<>>
                     /\ cells'[i].face_indices = <<>>
                     /\ cells'[i].face_neighbors = <<>>]_vars

\* The bisector of a coincident pair has been applied to a cell that the two
\* wall cuts had cleared
C27_Witness ==
    /\ walls = <<WallFar, WallX>>
    /\ pc = "calculate"
    /\ \E w \in 1..NThreads :
          /\ Busy(w)
          /\ Task(w).visited # {}
          /\ Task(w).cell.vertices = <<>>
          /\ AfterWalls(walls, Task(w).i).vertices = <<>>

\* Point v lies on the segment from a to b (points of two or three
\* coordinates): v - a is parallel to b - a and 0 <= (v - a).(b - a) <= |b - a|^2
OnSegment(a, b, v) ==
    LET n == Len(a)
        dot == [k \in 1..n |-> RMul(RSub(v[k], a[k]), RSub(b[k], a[k]))]
        len == [k \in 1..n |-> RMul(RSub(b[k], a[k]), RSub(b[k], a[k]))]
        along == IF n = 2 THEN RAdd(dot[1], dot[2]) ELSE RAdd(dot[1], RAdd(dot[2], dot[3]))
        whole == IF n = 2 THEN RAdd(len[1], len[2]) ELSE RAdd(len[1], RAdd(len[2], len[3]))
    IN  /\ \A k \in 1..n : \A m \in 1..n :
              RSign(RSub(RMul(RSub(v[k], a[k]), RSub(b[m], a[m])),
                         RMul(RSub(v[m], a[m]), RSub(b[k], a[k])))) = 0
        /\ RSign(along) >= 0
        /\ RLe(along, whole)

\* The edges of a CellFaces, as pairs of vertices
SegmentsOfFaces(c) ==
    UNION {{<<c.vertices[c.face_indices[SumTo(c.face_counts, f - 1) + k] + 1],
              c.vertices[c.face_indices[SumTo(c.face_counts, f - 1)
                                        + (k % c.face_counts[f]) + 1] + 1]>> :
               k \in 1..c.face_counts[f]} : f \in 1..Len(c.face_counts)}

\* The edges of a Cell2D, as pairs of vertices
SegmentsOfFlat(c) ==
    {<<c.vertices[i], c.vertices[(i % Len(c.vertices)) + 1]>> : i \in 1..Len(c.vertices)}

\* Every vertex of `after` is a vertex of `before` or lies on an edge of it
CutOnEdges(vertices, after, segments) ==
    \A k \in 1..Len(after) :
        \/ \E m \in 1..Len(vertices) : after[k] = vertices[m]
        \/ \E s \in segments : OnSegment(s[1], s[2], after[k])

\* C28: every vertex a clip creates, in 2D and in 3D, lies on the segment
\* between the two endpoints of the edge it cuts.
C28_CutsOnSegments ==
    (kind = "flat" /\ last.op = "clip") =>
        /\ last.ok =>
              CutOnEdges(last.before.vertices, cells[1].vertices, SegmentsOfFaces(last.before))
        /\ last.flat_ok =>
              CutOnEdges(last.flat_before.vertices, cells[2].vertices,
                         SegmentsOfFlat(last.flat_before))

\* C29: building the octree with set_generators terminates for every
\* generator list and every leaf capacity, also when more generators than
\* the capacity have the same coordinates: no insert subdivides without end.
C29_OctreeBuildTerminates == kind = "moctree" => (~octree.diverged /\ pc # "crashed")

\* C30: set_generator(i, p) with i >= count_generators returns without a
\* panic and changes neither the generator vector nor the spatial index.
C30_IndexOutOfRangeIgnored ==
    [][\A index \in 0..MaxIndex, p \in PointInputs :
          (SetGenerator(index, p) /\ index >= Count) =>
              /\ generators' = generators
              /\ grid' = grid
              /\ octree' = octree
              /\ pc' = "idle"
              /\ last' = Returned("set_generator", FALSE)]_vars

\* A call has returned without a write on a tessellation with one generator
\* and no wall: the index passed was 1
C30_Witness ==
    /\ last = Returned("set_generator", FALSE)
    /\ walls = <<>>
    /\ Count = 1

=============================================================================
